---- MODULE Spec2Model ----
(***************************************************************************)
(* Chunk lifecycle pipeline of the voxel world (src/chunk).                *)
(*                                                                         *)
(* One frame of the engine runs the PreUpdate chain                        *)
(*   create_chunk, draw_chunks, generate_chunk, mesh_chunk,                *)
(*   unload_distant_chunks                                                 *)
(* then Update (handle_move), then the Last chain                          *)
(*   process_chunk_meshing, process_discovery_tasks,                       *)
(*   process_chunk_generation, handle_chunk_discovery                      *)
(* (chunk/mod.rs:56-77).  pc names the system that runs next.  Events sent *)
(* in Last are read by the handlers of the next frame's PreUpdate.         *)
(*                                                                         *)
(* Asynchronous tasks finish at a time the frame loop does not control: a  *)
(* poll (future::poll_once) of a running task nondeterministically finds   *)
(* it finished or not.                                                     *)
(***************************************************************************)
EXTENDS Integers, Sequences, FiniteSets, TLC

(***************************************************************************)
(* Bounds of the model.                                                    *)
(***************************************************************************)
\* In-flight discovery tasks (handle_chunk_discovery is skipped beyond it,
\* as when the user toggles it off with KeyCode::L).
MaxDiscoveryTasks == 2
\* The per-tick drain cap.  The source sets 20 (events/discovery/mod.rs:20)
\* against 13*13*13 candidate coordinates; the model scales it with the
\* number of coordinates so that a backlog occurs.
QUEUE_PROCESS_LIMIT == 1

(***************************************************************************)
(* Program constants and configuration.                                    *)
(***************************************************************************)
CHUNK_SIZE == 16
CHUNK_GRID_SIZE == 1024
\* milliseconds after which the recently-dispatched set is cleared
CLEAR_INTERVAL == 150
\* DiscoverySettings.discovery_radius, in chunks (slider range 1..=40)
discovery_radius == 1

\* Chunk anchors the camera's frustum ever shows (the other candidates of
\* the enumeration are taken to be outside the frustum throughout).  The
\* backlog that a large candidate set produces in process_queue comes, here,
\* from several discovery tasks that finish in the same tick.
Coords == {<<0, 0>>}
\* Camera translation.x in world units; translation.z stays 0.
CamPositions == {0, 16, 32, 48}
\* Duration of a frame in milliseconds.
FrameMillis == {50, 150}

ChunkFlags == {"Generated", "Dirty", "Drawn", "Busy", "Meshed"}
\* Option::None of a registry lookup
NoChunk == [absent |-> TRUE]
None == "None"

Min(a, b) == IF a < b THEN a ELSE b
Abs(a) == IF a < 0 THEN -a ELSE a
\* i32 division truncates toward zero
TruncDiv(a, b) == IF a >= 0 THEN a \div b ELSE -((-a) \div b)

VARIABLES
    pc,               \* the system that runs next in the frame
    chunks,           \* ChunkRegistry.chunks: id -> Chunk (or NoChunk)
    entities,         \* per chunk anchor: state of the entity the chunk refers to
    orphans,          \* per chunk anchor: a live ChunkEntity no chunk refers to
    translation,      \* camera Transform.translation.x
    createEvents,     \* Events<ChunkCreateEvent>: coordinates -> count
    generateEvents,   \* Events<ChunkGenerateEvent>
    meshEvents,       \* Events<ChunkMeshEvent>
    drawEvents,       \* Events<ChunkDrawEvent>
    genTasks,         \* running ChunkGenerationTask per coordinates
    meshTasks,        \* running ChunkMeshTask per coordinates
    discTasks,        \* running ChunkDiscoveryTask: sequence of coordinate sets
    process_queue,    \* Local<Vec<ProcessWriterType>>
    coordinate_queue, \* Local<RwLock<HashSet<Coordinates>>>
    sinceClear,       \* time.elapsed() - last_time, saturated at CLEAR_INTERVAL
    meshInputs,       \* voxel contents the running ChunkMeshTasks were given
    decisions,        \* what process_discovery_tasks decided in its last run
    replaced,         \* coordinates whose chunk the last create_chunk pushed over
    args,             \* arguments of the function under study (pc names it)
    ret               \* what that function returned

\* the state of the running application, without the position in the frame
world == <<chunks, entities, orphans, translation, createEvents,
           generateEvents, meshEvents, drawEvents, genTasks, meshTasks,
           discTasks, process_queue, coordinate_queue, sinceClear, decisions,
           replaced, meshInputs>>

vars == <<pc, world, args, ret>>

(***************************************************************************)
(* Spatial registry (chunk/registry.rs).                                   *)
(***************************************************************************)
domain_to_id(coordinates) ==
    LET linear_x == TruncDiv(coordinates[1], CHUNK_SIZE)
        linear_z == TruncDiv(coordinates[2], CHUNK_SIZE)
    IN  (linear_x * CHUNK_GRID_SIZE) + linear_z

ChunkIds == {domain_to_id(c) : c \in Coords}

get_chunk_at(registry, coordinates) == registry[domain_to_id(coordinates)]

push_chunk_at(registry, coordinates, chunk) ==
    [registry EXCEPT ![domain_to_id(coordinates)] = chunk]

(***************************************************************************)
(* Chunk (chunk/chunk.rs).                                                 *)
(***************************************************************************)
Chunk_new ==
    [voxels |-> "default", mesh |-> None, flags |-> {}, entity |-> None, lod |-> 0]

set_flag(chunk, flag, value) ==
    [chunk EXCEPT !.flags = IF value THEN @ \cup {flag} ELSE @ \ {flag}]

set_generated(chunk, gen) == set_flag(chunk, "Generated", gen)
set_dirty(chunk, dirty) == set_flag(chunk, "Dirty", dirty)
set_busy(chunk, busy) == set_flag(chunk, "Busy", busy)
set_drawn(chunk, drawn) == set_flag(chunk, "Drawn", drawn)

\* a set_mesh that records the flag and drops the handle
set_mesh_drops_handle(chunk, mesh) == [chunk EXCEPT !.flags = @ \cup {"Meshed"}]

set_mesh(chunk, mesh) == [chunk EXCEPT !.mesh = mesh, !.flags = @ \cup {"Meshed"}]
set_voxels(chunk) == [chunk EXCEPT !.voxels = "generated"]
set_entity(chunk) == [chunk EXCEPT !.entity = "Some"]

(***************************************************************************)
(* Helpers on event counters and sequences.                                *)
(***************************************************************************)
NoEvents == [c \in Coords |-> 0]

\* Coordinates in the order of the discovery enumeration (x outermost).
RECURSIVE Enumerate(_)
Enumerate(S) ==
    IF S = {} THEN <<>>
    ELSE LET first == CHOOSE c \in S : \A d \in S :
                          c[1] < d[1] \/ (c[1] = d[1] /\ c[2] <= d[2])
         IN  <<first>> \o Enumerate(S \ {first})

RECURSIVE CountOf(_, _, _)
CountOf(queue, type, coordinates) ==
    IF queue = <<>> THEN 0
    ELSE (IF Head(queue).type = type /\ Head(queue).coordinates = coordinates
          THEN 1 ELSE 0) + CountOf(Tail(queue), type, coordinates)

(***************************************************************************)
(* Initial state: ChunkPlugin::build inserts an empty registry; no event,  *)
(* task or entity exists; the camera is at the origin.                     *)
(***************************************************************************)
EmptyWorld ==
    /\ chunks = [id \in ChunkIds |-> NoChunk]
    /\ entities = [c \in Coords |-> "unspawned"]
    /\ orphans = [c \in Coords |-> FALSE]
    /\ translation = 0
    /\ createEvents = NoEvents
    /\ generateEvents = NoEvents
    /\ meshEvents = NoEvents
    /\ drawEvents = NoEvents
    /\ genTasks = NoEvents
    /\ meshTasks = NoEvents
    /\ discTasks = <<>>
    /\ process_queue = <<>>
    /\ coordinate_queue = {}
    /\ sinceClear = 0
    /\ decisions = <<>>
    /\ replaced = {}
    /\ meshInputs = [c \in Coords |-> {}]

Init ==
    /\ pc = "create_chunk"
    /\ EmptyWorld
    /\ args = None
    /\ ret = None

(***************************************************************************)
(* PreUpdate: create_chunk (chunk/event.rs).                               *)
(***************************************************************************)
RECURSIVE create_all(_, _)
create_all(registry, coordinates) ==
    IF coordinates = <<>> THEN registry
    ELSE create_all(push_chunk_at(registry, Head(coordinates), Chunk_new),
                    Tail(coordinates))

CreateChunk ==
    /\ pc = "create_chunk"
    /\ LET created == {c \in Coords : createEvents[c] > 0}
       IN  /\ chunks' = create_all(chunks, Enumerate(created))
           \* the entity a replaced chunk referred to stays in the world
           /\ orphans' = [c \in Coords |->
                 orphans[c] \/ (c \in created /\ entities[c] = "alive")]
           /\ entities' = [c \in Coords |->
                 IF c \in created THEN "unspawned" ELSE entities[c]]
           /\ replaced' = {c \in created :
                 get_chunk_at(chunks, c) # NoChunk \/ createEvents[c] > 1}
    /\ createEvents' = NoEvents
    /\ pc' = "draw_chunks"
    /\ UNCHANGED <<args, ret, translation, generateEvents, meshEvents, drawEvents,
                   genTasks, meshTasks, discTasks, process_queue,
                   coordinate_queue, sinceClear, decisions, meshInputs>>

(***************************************************************************)
(* PreUpdate: draw_chunks (chunk/events/draw.rs).                          *)
(***************************************************************************)
\* chunks a Draw event reaches: present and with a mesh
DrawTargets ==
    {c \in Coords : /\ drawEvents[c] > 0
                    /\ get_chunk_at(chunks, c) # NoChunk
                    /\ get_chunk_at(chunks, c).mesh # None}

\* variant: the handler does not record that the chunk is drawn
draw_chunk_not_recorded(chunk) ==
    IF chunk.entity = None THEN set_entity(chunk) ELSE chunk

draw_chunk(chunk) ==
    set_drawn(IF chunk.entity = None THEN set_entity(chunk) ELSE chunk, TRUE)

DrawChunks ==
    /\ pc = "draw_chunks"
    /\ IF \E c \in DrawTargets : entities[c] = "despawned"
       THEN \* commands.entity(entity) panics for an entity that was despawned
            /\ pc' = "panicked"
            /\ UNCHANGED <<chunks, entities, drawEvents>>
       ELSE /\ chunks' = [id \in ChunkIds |->
                 IF \E c \in DrawTargets : domain_to_id(c) = id
                 THEN draw_chunk(chunks[id]) ELSE chunks[id]]
            /\ entities' = [c \in Coords |->
                 IF c \in DrawTargets /\ entities[c] = "unspawned"
                 THEN "new" ELSE entities[c]]
            /\ drawEvents' = NoEvents
            /\ pc' = "generate_chunk"
    /\ UNCHANGED <<args, ret, orphans, translation, createEvents, generateEvents,
                   meshEvents, genTasks, meshTasks, discTasks, process_queue,
                   coordinate_queue, sinceClear, decisions,
                   replaced, meshInputs>>

(***************************************************************************)
(* PreUpdate: generate_chunk (chunk/events/gen.rs).                        *)
(***************************************************************************)
\* what the handler does to the chunk before it spawns the task
start_task(chunk) == set_busy(chunk, TRUE)

GenerateChunk ==
    /\ pc = "generate_chunk"
    /\ LET hit == {c \in Coords : generateEvents[c] > 0
                                  /\ get_chunk_at(chunks, c) # NoChunk}
       IN  /\ chunks' = [id \in ChunkIds |->
                 IF \E c \in hit : domain_to_id(c) = id
                 THEN start_task(chunks[id]) ELSE chunks[id]]
           /\ genTasks' = [c \in Coords |->
                 IF c \in hit THEN genTasks[c] + generateEvents[c]
                 ELSE genTasks[c]]
    /\ generateEvents' = NoEvents
    /\ pc' = "mesh_chunk"
    /\ UNCHANGED <<args, ret, entities, orphans, translation, createEvents, meshEvents,
                   drawEvents, meshTasks, discTasks, process_queue,
                   coordinate_queue, sinceClear, decisions,
                   replaced, meshInputs>>

(***************************************************************************)
(* PreUpdate: mesh_chunk (chunk/events/mesh.rs).                           *)
(***************************************************************************)
MeshChunk ==
    /\ pc = "mesh_chunk"
    /\ LET hit == {c \in Coords : meshEvents[c] > 0
                                  /\ get_chunk_at(chunks, c) # NoChunk}
       IN  /\ chunks' = [id \in ChunkIds |->
                 IF \E c \in hit : domain_to_id(c) = id
                 THEN start_task(chunks[id]) ELSE chunks[id]]
           /\ meshTasks' = [c \in Coords |->
                 IF c \in hit THEN meshTasks[c] + meshEvents[c]
                 ELSE meshTasks[c]]
           \* the task is given the chunk's voxels (binding, mesh.rs:67)
           /\ meshInputs' = [c \in Coords |->
                 IF c \in hit
                 THEN meshInputs[c] \cup {get_chunk_at(chunks, c).voxels}
                 ELSE meshInputs[c]]
    /\ meshEvents' = NoEvents
    /\ pc' = "unload_distant_chunks"
    /\ UNCHANGED <<args, ret, entities, orphans, translation, createEvents,
                   generateEvents, drawEvents, genTasks, discTasks,
                   process_queue, coordinate_queue, sinceClear, decisions,
                   replaced>>

(***************************************************************************)
(* PreUpdate: unload_distant_chunks (chunk/discovery.rs), run while the    *)
(* KeyCode::M toggle is active.  Commands (despawn, the components of an   *)
(* entity drawn in this frame) are applied when the schedule ends.         *)
(***************************************************************************)
\* diff_x - 1.0 > discovery_radius, with both sides multiplied by CHUNK_SIZE
IsDistant(position, camera) ==
    LET dist_x == TruncDiv(position[1], CHUNK_SIZE)
        dist_z == TruncDiv(position[2], CHUNK_SIZE)
    IN  \/ Abs(dist_x * CHUNK_SIZE - camera) - CHUNK_SIZE > discovery_radius * CHUNK_SIZE
        \/ Abs(dist_z * CHUNK_SIZE - 0) - CHUNK_SIZE > discovery_radius * CHUNK_SIZE

ApplyDeferred(ents) ==
    [c \in Coords |-> IF ents[c] = "new" THEN "alive" ELSE ents[c]]

unload_chunk(chunk) == set_dirty(chunk, TRUE)

UnloadDistantChunks ==
    /\ pc = "unload_distant_chunks"
    /\ \/ LET unloaded == {c \in Coords :
                              /\ entities[c] = "alive" \/ orphans[c]
                              /\ IsDistant(c, translation)
                              /\ get_chunk_at(chunks, c) # NoChunk}
          IN  /\ chunks' = [id \in ChunkIds |->
                    IF \E c \in unloaded : domain_to_id(c) = id
                    THEN unload_chunk(chunks[id]) ELSE chunks[id]]
              /\ entities' = ApplyDeferred([c \in Coords |->
                    IF c \in unloaded /\ entities[c] = "alive"
                    THEN "despawned" ELSE entities[c]])
              /\ orphans' = [c \in Coords |-> orphans[c] /\ c \notin unloaded]
       \/ \* toggled off
          /\ entities' = ApplyDeferred(entities)
          /\ UNCHANGED <<chunks, orphans>>
    /\ pc' = "handle_move"
    /\ UNCHANGED <<args, ret, translation, createEvents, generateEvents, meshEvents,
                   drawEvents, genTasks, meshTasks, discTasks, process_queue,
                   coordinate_queue, sinceClear, decisions,
                   replaced, meshInputs>>

(***************************************************************************)
(* Update: handle_move (input/camera.rs); the unit of movement is a chunk. *)
(***************************************************************************)
HandleMove ==
    /\ pc = "handle_move"
    /\ \E t \in CamPositions :
          /\ Abs(t - translation) <= CHUNK_SIZE
          /\ translation' = t
    /\ pc' = "process_chunk_meshing"
    /\ UNCHANGED <<args, ret, chunks, entities, orphans, createEvents, generateEvents,
                   meshEvents, drawEvents, genTasks, meshTasks, discTasks,
                   process_queue, coordinate_queue, sinceClear, decisions,
                   replaced, meshInputs>>

(***************************************************************************)
(* Last: process_chunk_meshing (chunk/events/mesh.rs).                     *)
(***************************************************************************)
\* the counts of running tasks that a poll finds finished
Finished(tasks) ==
    LET most == CHOOSE n \in {tasks[c] : c \in Coords} :
                    \A c \in Coords : tasks[c] <= n
    IN  {fin \in [Coords -> 0..most] : \A c \in Coords : fin[c] <= tasks[c]}

\* the mesh a task builds from the voxels it was given (chunk/mesh.rs)
mesh_of(voxels) ==
    IF voxels = "generated" THEN "mesh of generated" ELSE "mesh of default"

\* variant: the result is applied without releasing the chunk
apply_mesh_result_keeps_busy(chunk, mesh) ==
    set_dirty(set_mesh(chunk, mesh), FALSE)

\* variant: the result is applied without clearing Dirty
apply_mesh_result_keeps_dirty(chunk, mesh) ==
    set_busy(set_mesh(chunk, mesh), FALSE)

apply_mesh_result(chunk, mesh) ==
    set_busy(set_dirty(set_mesh(chunk, mesh), FALSE), FALSE)

ProcessChunkMeshing ==
    /\ pc = "process_chunk_meshing"
    /\ \E fin \in Finished(meshTasks) :
          LET applied == {c \in Coords : fin[c] > 0
                                         /\ get_chunk_at(chunks, c) # NoChunk}
          IN  /\ meshTasks' = [c \in Coords |-> meshTasks[c] - fin[c]]
              /\ meshInputs' = [c \in Coords |->
                    IF meshTasks[c] - fin[c] = 0 THEN {} ELSE meshInputs[c]]
              \* given[c]: the voxels the last finished task of c was given
              /\ \E given \in [applied -> {"default", "generated"}] :
                    /\ \A c \in applied : given[c] \in meshInputs[c]
                    /\ chunks' = [id \in ChunkIds |->
                          IF \E c \in applied : domain_to_id(c) = id
                          THEN apply_mesh_result(chunks[id],
                                  mesh_of(given[CHOOSE c \in applied :
                                                    domain_to_id(c) = id]))
                          ELSE chunks[id]]
              /\ drawEvents' = [c \in Coords |->
                    IF c \in applied THEN drawEvents[c] + fin[c]
                    ELSE drawEvents[c]]
    /\ pc' = "process_discovery_tasks"
    /\ UNCHANGED <<args, ret, entities, orphans, translation, createEvents,
                   generateEvents, meshEvents, genTasks, discTasks,
                   process_queue, coordinate_queue, sinceClear, decisions,
                   replaced>>

(***************************************************************************)
(* Last: process_discovery_tasks (chunk/events/discovery/processing.rs).   *)
(***************************************************************************)
\* variant: the match without its Busy arm
decide_flags_ignores_busy(flags) ==
    IF "Generated" \notin flags THEN "Generate"
    ELSE IF "Meshed" \in flags /\ "Drawn" \notin flags THEN "Draw"
    ELSE IF "Dirty" \in flags THEN "Mesh"
    ELSE None

\* the match on the chunk's flags, processing.rs:63-92
decide_flags(flags) ==
    IF "Busy" \in flags THEN None
    ELSE IF "Generated" \notin flags THEN "Generate"
    ELSE IF "Meshed" \in flags /\ "Drawn" \notin flags THEN "Draw"
    ELSE IF "Dirty" \in flags THEN "Mesh"
    ELSE None

\* variant: a chunk that is busy is created anew
decide_creates_busy(chunk, queued) ==
    IF queued THEN None
    ELSE IF chunk = NoChunk THEN "Create"
    ELSE IF "Busy" \in chunk.flags THEN "Create"
    ELSE decide_flags(chunk.flags)

\* the closure run for one candidate, processing.rs:52-98
decide(chunk, queued) ==
    IF queued THEN None
    ELSE IF chunk = NoChunk THEN "Create"
    ELSE decide_flags(chunk.flags)

\* the recently-dispatched set after the candidate, processing.rs:87-96
remember(queue, coordinates, result) ==
    IF result \in {None, "Create"} THEN queue ELSE queue \cup {coordinates}

\* st = [cq: the set, out: actions emitted, log: the decisions taken]
RECURSIVE decide_all(_, _, _)
decide_all(registry, st, candidates) ==
    IF candidates = <<>> THEN st
    ELSE LET coordinates == Head(candidates)
             chunk == get_chunk_at(registry, coordinates)
             queued == coordinates \in st.cq
             result == decide(chunk, queued)
         IN  decide_all(registry,
                [cq  |-> remember(st.cq, coordinates, result),
                 out |-> IF result = None THEN st.out
                         ELSE Append(st.out, [type |-> result,
                                              coordinates |-> coordinates]),
                 log |-> Append(st.log, [coordinates |-> coordinates,
                                         queued |-> queued,
                                         chunk |-> chunk,
                                         result |-> result])],
                Tail(candidates))

\* the candidates of the finished tasks, in task order
RECURSIVE Candidates(_, _, _)
Candidates(tasks, done, i) ==
    IF i > Len(tasks) THEN <<>>
    ELSE (IF i \in done THEN Enumerate(tasks[i]) ELSE <<>>)
         \o Candidates(tasks, done, i + 1)

RECURSIVE Remaining(_, _, _)
Remaining(tasks, done, i) ==
    IF i > Len(tasks) THEN <<>>
    ELSE (IF i \in done THEN <<>> ELSE <<tasks[i]>>)
         \o Remaining(tasks, done, i + 1)

\* a drain range that is not capped
drain_count_uncapped(length) == length

\* number of queue entries drained in one run, processing.rs:114-117
drain_count(length) == Min(length, QUEUE_PROCESS_LIMIT)

\* a drain that discards what it does not send
kept_nothing(queue, n) == <<>>

\* what Vec::drain(0..n) leaves in the queue, processing.rs:117
kept(queue, n) == SubSeq(queue, n + 1, Len(queue))

Sent(events, dispatched, type) ==
    [c \in Coords |-> events[c] + CountOf(dispatched, type, c)]

poll_discovery(dt, done) ==
    LET elapsed == Min(sinceClear + dt, CLEAR_INTERVAL)
        cleared == elapsed >= CLEAR_INTERVAL
        st == decide_all(chunks,
                  [cq  |-> IF cleared THEN {} ELSE coordinate_queue,
                   out |-> <<>>, log |-> <<>>],
                  Candidates(discTasks, done, 1))
        queue == process_queue \o st.out
        n == drain_count(Len(queue))
        dispatched == SubSeq(queue, 1, n)
    IN  /\ pc = "process_discovery_tasks"
        /\ sinceClear' = IF cleared THEN 0 ELSE elapsed
        /\ coordinate_queue' = st.cq
        /\ decisions' = st.log
        /\ discTasks' = Remaining(discTasks, done, 1)
        /\ process_queue' = kept(queue, n)
        /\ generateEvents' = Sent(generateEvents, dispatched, "Generate")
        /\ meshEvents' = Sent(meshEvents, dispatched, "Mesh")
        /\ drawEvents' = Sent(drawEvents, dispatched, "Draw")
        /\ createEvents' = Sent(createEvents, dispatched, "Create")
        /\ pc' = "process_chunk_generation"
        /\ UNCHANGED <<args, ret, chunks, entities, orphans, translation, genTasks, meshTasks,
                   replaced, meshInputs>>

ProcessDiscoveryTasks ==
    \E dt \in FrameMillis, done \in SUBSET (1..Len(discTasks)) :
        poll_discovery(dt, done)

(***************************************************************************)
(* Last: process_chunk_generation (chunk/events/gen.rs).                   *)
(***************************************************************************)
\* variant: the result of a finished task is dropped
apply_generation_result_dropped(chunk) == chunk

apply_generation_result(chunk) == set_generated(set_voxels(chunk), TRUE)

ProcessChunkGeneration ==
    /\ pc = "process_chunk_generation"
    /\ \E fin \in Finished(genTasks) :
          LET applied == {c \in Coords : fin[c] > 0
                                         /\ get_chunk_at(chunks, c) # NoChunk}
          IN  /\ genTasks' = [c \in Coords |-> genTasks[c] - fin[c]]
              /\ chunks' = [id \in ChunkIds |->
                    IF \E c \in applied : domain_to_id(c) = id
                    THEN apply_generation_result(chunks[id]) ELSE chunks[id]]
              /\ meshEvents' = [c \in Coords |->
                    IF c \in applied THEN meshEvents[c] + fin[c]
                    ELSE meshEvents[c]]
    \* the decisions of process_discovery_tasks are local to its run
    /\ decisions' = <<>>
    /\ pc' = "handle_chunk_discovery"
    /\ UNCHANGED <<args, ret, entities, orphans, translation, createEvents,
                   generateEvents, drawEvents, meshTasks, discTasks,
                   process_queue, coordinate_queue, sinceClear,
                   replaced, meshInputs>>

(***************************************************************************)
(* Last: handle_chunk_discovery (chunk/events/discovery/query.rs), run     *)
(* while the KeyCode::L toggle is active.  The task enumerates the chunk   *)
(* anchors within the radius of the camera's chunk and keeps those the     *)
(* frustum test accepts; the frustum is an input.                          *)
(***************************************************************************)
\* (translation.x / chunk_size) as i32; translation.z is 0
center_chunk(position) == TruncDiv(position, CHUNK_SIZE)

InRadius(camera) ==
    {point \in Coords :
        \E x_offset \in (-discovery_radius)..discovery_radius,
           z_offset \in (-discovery_radius)..discovery_radius :
            point = <<(center_chunk(camera) + x_offset) * CHUNK_SIZE,
                      (center_chunk(0) + z_offset) * CHUNK_SIZE>>}

HandleChunkDiscovery ==
    /\ pc = "handle_chunk_discovery"
    /\ \/ /\ Len(discTasks) < MaxDiscoveryTasks
          /\ \E visible \in SUBSET InRadius(translation) :
                /\ visible # {}
                /\ discTasks' = Append(discTasks, visible)
       \/ \* toggled off, or the frustum shows none of Coords: such a task
          \* yields no candidate and is not tracked
          UNCHANGED discTasks
    /\ pc' = "create_chunk"
    /\ UNCHANGED <<args, ret, chunks, entities, orphans, translation, createEvents,
                   generateEvents, meshEvents, drawEvents, genTasks,
                   meshTasks, process_queue, coordinate_queue, sinceClear,
                   decisions,
                   replaced, meshInputs>>

Next ==
    \/ CreateChunk
    \/ DrawChunks
    \/ GenerateChunk
    \/ MeshChunk
    \/ UnloadDistantChunks
    \/ HandleMove
    \/ ProcessChunkMeshing
    \/ ProcessDiscoveryTasks
    \/ ProcessChunkGeneration
    \/ HandleChunkDiscovery

Spec == Init /\ [][Next]_vars

TypeOK ==
    /\ pc \in {"create_chunk", "draw_chunks", "generate_chunk", "mesh_chunk",
               "unload_distant_chunks", "handle_move", "process_chunk_meshing",
               "process_discovery_tasks", "process_chunk_generation",
               "handle_chunk_discovery", "panicked"}
    /\ \A id \in ChunkIds : chunks[id] = NoChunk \/ chunks[id].flags \subseteq ChunkFlags
    /\ translation \in CamPositions
    /\ Len(process_queue) <= 2 * MaxDiscoveryTasks
    /\ Len(discTasks) <= MaxDiscoveryTasks

(***************************************************************************)
(* Fairness.  The frame loop keeps ticking (WF on Next: every system of    *)
(* the frame takes its step), every spawned task is eventually found       *)
(* finished by a poll (a running task is polled once per frame, so the     *)
(* finishing poll is enabled again and again: SF), and discovery keeps     *)
(* being run for a coordinate while the camera shows it.                   *)
(***************************************************************************)
GenFinish(c) == ProcessChunkGeneration /\ genTasks'[c] < genTasks[c]
MeshFinish(c) == ProcessChunkMeshing /\ meshTasks'[c] < meshTasks[c]
\* the oldest discovery task is found finished
DiscoveryFinish ==
    \E dt \in FrameMillis, done \in SUBSET (1..Len(discTasks)) :
        1 \in done /\ poll_discovery(dt, done)
\* a discovery task is spawned whose frustum shows c
DiscoverySpawn(c) ==
    /\ HandleChunkDiscovery
    /\ Len(discTasks') > Len(discTasks)
    /\ c \in discTasks'[Len(discTasks')]

TaskFairness ==
    /\ WF_vars(Next)
    /\ \A c \in Coords : SF_vars(GenFinish(c)) /\ SF_vars(MeshFinish(c))

FairSpec == Spec /\ TaskFairness

DiscoveryFairSpec ==
    /\ Spec
    /\ TaskFairness
    /\ SF_vars(DiscoveryFinish)
    /\ \A c \in Coords : SF_vars(DiscoverySpawn(c))

(***************************************************************************)
(* State predicates used by the properties.                                *)
(***************************************************************************)
Present(c) == get_chunk_at(chunks, c) # NoChunk
HasFlag(c, flag) == Present(c) /\ flag \in get_chunk_at(chunks, c).flags
InFlight(c) == genTasks[c] + meshTasks[c]
Queued(queue, c) == \E i \in DOMAIN queue : queue[i].coordinates = c
Emitted(log) == {i \in DOMAIN log : log[i].result # None}
Panicked == pc = "panicked"

(***************************************************************************)
(* C1: for every chunk coordinate at most one asynchronous task            *)
(* (generation or meshing) on that chunk is in flight.                     *)
(***************************************************************************)
C1_AtMostOneTaskInFlight == \A c \in Coords : InFlight(c) <= 1

(***************************************************************************)
(* C2: whenever a generation or meshing task for a chunk is in flight,     *)
(* the chunk's Busy flag is set.                                           *)
(***************************************************************************)
C2_BusyWhileInFlight == \A c \in Coords : InFlight(c) > 0 => HasFlag(c, "Busy")

(***************************************************************************)
(* C3: Busy is never left set permanently: while the frame loop keeps      *)
(* ticking and every task completes, a chunk whose Busy flag is set        *)
(* eventually has it cleared.                                              *)
(***************************************************************************)
C3_BusyEventuallyCleared ==
    \A c \in Coords :
        HasFlag(c, "Busy") ~> (~HasFlag(c, "Busy") \/ Panicked)

C3_Witness ==
    \E c \in Coords : HasFlag(c, "Busy") /\ meshTasks[c] > 0 /\ genTasks[c] = 0

(***************************************************************************)
(* C4: a Create action for a coordinate whose chunk is already in the      *)
(* registry leaves the existing chunk unchanged.                           *)
(***************************************************************************)
C4_CreateKeepsExistingChunk ==
    [][pc = "create_chunk" =>
          \A id \in ChunkIds : chunks[id] # NoChunk => chunks'[id] = chunks[id]]_vars

C4_Witness ==
    /\ pc = "draw_chunks"
    /\ \E c \in replaced : Present(c) /\ get_chunk_at(chunks, c) = Chunk_new

(***************************************************************************)
(* C5: while an action Discovery emitted for a coordinate is still queued  *)
(* or its task is in flight, Discovery emits no further action for that    *)
(* coordinate, within one run and across runs.                             *)
(***************************************************************************)
C5_NoSecondEmission ==
    [][pc = "process_discovery_tasks" =>
          \A i \in Emitted(decisions') :
              LET c == decisions'[i].coordinates
              IN  /\ ~Queued(process_queue, c)
                  /\ InFlight(c) = 0
                  /\ \A j \in Emitted(decisions') :
                        j # i => decisions'[j].coordinates # c]_vars

(***************************************************************************)
(* C6: each Generate, Mesh or Draw action that Discovery emits sets the    *)
(* chunk's Busy flag at emission time, i.e. when process_discovery_tasks   *)
(* decides it.                                                             *)
(***************************************************************************)
C6_BusySetAtEmission ==
    \A i \in DOMAIN decisions :
        decisions[i].result \in {"Generate", "Mesh", "Draw"}
            => HasFlag(decisions[i].coordinates, "Busy")

(***************************************************************************)
(* C7: for each candidate coordinate Discovery decides by the priority     *)
(* absent -> Create; Busy -> nothing; not Generated -> Generate; Meshed    *)
(* and not Drawn -> Draw; Dirty -> Mesh; otherwise nothing.                *)
(***************************************************************************)
\* the outcome the priority list prescribes for the chunk a candidate has
PriorityOutcome(chunk) ==
    CASE chunk = NoChunk -> "Create"
      [] chunk # NoChunk /\ "Busy" \in chunk.flags -> None
      [] chunk # NoChunk /\ "Busy" \notin chunk.flags
            /\ "Generated" \notin chunk.flags -> "Generate"
      [] chunk # NoChunk /\ {"Busy"} \cap chunk.flags = {}
            /\ {"Generated", "Meshed"} \subseteq chunk.flags
            /\ "Drawn" \notin chunk.flags -> "Draw"
      [] chunk # NoChunk /\ {"Busy"} \cap chunk.flags = {}
            /\ "Generated" \in chunk.flags
            /\ ~("Meshed" \in chunk.flags /\ "Drawn" \notin chunk.flags)
            /\ "Dirty" \in chunk.flags -> "Mesh"
      [] OTHER -> None

\* the claim as stated: every candidate, whether recently dispatched or not
C7_PriorityForEveryCandidate ==
    \A i \in DOMAIN decisions :
        decisions[i].result = PriorityOutcome(decisions[i].chunk)

\* amended: the priority list decides the candidates that are not in the
\* recently-dispatched set; a candidate in the set yields nothing
C7_PriorityUnlessRecentlyDispatched ==
    \A i \in DOMAIN decisions :
        IF decisions[i].queued
        THEN decisions[i].result = None
        ELSE decisions[i].result = PriorityOutcome(decisions[i].chunk)

\* a recently dispatched candidate whose chunk is Meshed, not Drawn and not
\* Busy: the priority list says Draw, the decision is nothing
C7_Witness ==
    \E i \in DOMAIN decisions :
        /\ decisions[i].queued
        /\ decisions[i].chunk # NoChunk
        /\ decisions[i].chunk.flags = {"Generated", "Meshed"}
        /\ PriorityOutcome(decisions[i].chunk) = "Draw"
        /\ decisions[i].result = None

(***************************************************************************)
(* C8: under fairness a coordinate that stays within the discovery radius  *)
(* and keeps being shown by the frustum eventually reaches the steady      *)
(* state Generated, Meshed, Drawn, not Busy, not Dirty, and from then on   *)
(* nothing is emitted, queued or in flight for it.                         *)
(***************************************************************************)
Steady(c) ==
    /\ Present(c)
    /\ get_chunk_at(chunks, c).flags = {"Generated", "Meshed", "Drawn"}
Quiet(c) ==
    /\ ~Queued(process_queue, c)
    /\ \A i \in Emitted(decisions) : decisions[i].coordinates # c
    /\ createEvents[c] + generateEvents[c] + meshEvents[c] + drawEvents[c] = 0
    /\ InFlight(c) = 0

\* c is one of the chunks handle_chunk_discovery scans around the camera,
\* compared in chunk units
InRange(c) ==
    /\ Abs(TruncDiv(c[1], CHUNK_SIZE) - center_chunk(translation)) <= discovery_radius
    /\ Abs(TruncDiv(c[2], CHUNK_SIZE) - center_chunk(0)) <= discovery_radius

InRangeIsInRadius == \A c \in Coords : InRange(c) <=> c \in InRadius(translation)

C8_EventuallySteady ==
    \A c \in Coords :
        <>(~InRange(c)) \/ <>[](Steady(c) /\ Quiet(c))

C8_Witness ==
    \E c \in Coords :
        /\ Steady(c) /\ Quiet(c)
        /\ InRange(c)
        /\ pc = "process_chunk_generation"
        /\ \E i \in DOMAIN decisions : decisions[i].coordinates = c

(***************************************************************************)
(* C9: per coordinate the stages occur in the order Create, Generate, then *)
(* repeated Mesh/Draw: a generation task runs only before the chunk's      *)
(* first mesh, no mesh task is started for a chunk that is not Generated,  *)
(* Meshed implies Generated and Drawn implies Meshed.                      *)
(***************************************************************************)
C9_StagesInOrder ==
    \A c \in Coords :
        /\ genTasks[c] > 0 => ~HasFlag(c, "Meshed")
        /\ meshTasks[c] > 0 => HasFlag(c, "Generated")
        /\ HasFlag(c, "Meshed") => HasFlag(c, "Generated")
        /\ HasFlag(c, "Drawn") => HasFlag(c, "Meshed")

(***************************************************************************)
(* C10: once Generated is set for a coordinate no further Generate action  *)
(* is emitted and no further generation task is spawned for it.            *)
(***************************************************************************)
C10_GeneratedAtMostOnce ==
    [][\A c \in Coords :
          HasFlag(c, "Generated") =>
              /\ genTasks'[c] <= genTasks[c]
              /\ generateEvents'[c] <= generateEvents[c]]_vars

(***************************************************************************)
(* C11: a chunk that is Meshed and not Drawn produces exactly one Draw     *)
(* action in every run of Discovery that covers it, and at no time are two *)
(* Draw actions for the same chunk pending at once.                        *)
(***************************************************************************)
\* Draw actions for c that are sent or queued and not yet handled
PendingDraws(c) == drawEvents[c] + CountOf(process_queue, "Draw", c)

\* the candidates of the last run that are c
Covering(c) == {i \in DOMAIN decisions : decisions[i].coordinates = c}

C11_OneDrawPerPass ==
    \A c \in Coords :
        /\ PendingDraws(c) <= 1
        /\ (\E i \in Covering(c) :
                /\ decisions[i].chunk # NoChunk
                /\ "Meshed" \in decisions[i].chunk.flags
                /\ "Drawn" \notin decisions[i].chunk.flags)
             => Cardinality({i \in Covering(c) : decisions[i].result = "Draw"}) = 1

(***************************************************************************)
(* C12: Drawn implies that the chunk's render entity is set and exists.    *)
(***************************************************************************)
C12_DrawnHasLiveEntity ==
    \A c \in Coords :
        HasFlag(c, "Drawn") =>
            /\ get_chunk_at(chunks, c).entity # None
            /\ entities[c] \in {"new", "alive"}

(***************************************************************************)
(* C13: when a drawn chunk is unloaded its Drawn flag is cleared while its *)
(* voxel data and its Generated flag are retained.                         *)
(***************************************************************************)
\* the chunks whose entity the step despawns
Unloaded(c) == entities[c] = "alive" /\ entities'[c] = "despawned"

C13_UnloadClearsDrawn ==
    [][\A c \in Coords :
          (Unloaded(c) /\ HasFlag(c, "Drawn")) =>
              /\ "Drawn" \notin get_chunk_at(chunks', c).flags
              /\ get_chunk_at(chunks', c).voxels = get_chunk_at(chunks, c).voxels
              /\ "Generated" \in get_chunk_at(chunks', c).flags]_vars

(***************************************************************************)
(* C14: a chunk unloaded because it left the discovery radius is marked    *)
(* Dirty and, once it is back within the radius, is eventually re-meshed   *)
(* and shown again with an existing render entity, unless it leaves the    *)
(* radius again first.                                                     *)
(***************************************************************************)
\* c is drawn from a mesh of its current state and its entity exists
Shown(c) ==
    /\ HasFlag(c, "Drawn") /\ HasFlag(c, "Meshed") /\ ~HasFlag(c, "Dirty")
    /\ entities[c] \in {"new", "alive"}

C14_UnloadedChunkShownAgain ==
    \A c \in Coords :
        (HasFlag(c, "Dirty") /\ InRange(c)) ~> (~InRange(c) \/ Shown(c))

(***************************************************************************)
(* C15: a mesh result that arrives for a chunk that has fallen out of      *)
(* range is applied to the chunk but causes no Draw; whether the chunk is  *)
(* drawn is left to the next run of Discovery.                             *)
(***************************************************************************)
\* the step applies a mesh result to c
MeshApplied(c) ==
    /\ pc = "process_chunk_meshing"
    /\ meshTasks'[c] < meshTasks[c]
    /\ Present(c)

C15_LateMeshNotDrawn ==
    [][\A c \in Coords :
          (MeshApplied(c) /\ ~InRange(c)) =>
              /\ "Meshed" \in get_chunk_at(chunks', c).flags
              /\ drawEvents'[c] = drawEvents[c]]_vars

(***************************************************************************)
(* C16: Dirty is set whenever a chunk's voxel content changes: after a     *)
(* generation result is applied the chunk's Dirty flag is set.             *)
(***************************************************************************)
\* the step replaces the voxels of the chunk that c has
VoxelsChanged(c) ==
    /\ Present(c)
    /\ get_chunk_at(chunks', c).voxels # get_chunk_at(chunks, c).voxels

C16_DirtyWhenVoxelsChange ==
    [][\A c \in Coords :
          VoxelsChanged(c) => "Dirty" \in get_chunk_at(chunks', c).flags]_vars

(***************************************************************************)
(* C17: Dirty is cleared only when a mesh built from the chunk's current   *)
(* voxel content is applied, and right after a mesh result is applied the  *)
(* chunk's Dirty flag is false.                                            *)
(***************************************************************************)
\* the step clears the Dirty flag of the chunk that c has
DirtyCleared(c) ==
    /\ HasFlag(c, "Dirty")
    /\ "Dirty" \notin get_chunk_at(chunks', c).flags

C17_DirtyClearedByCurrentMesh ==
    [][\A c \in Coords :
          /\ DirtyCleared(c) =>
                /\ MeshApplied(c)
                /\ get_chunk_at(chunks', c).mesh
                      = mesh_of(get_chunk_at(chunks', c).voxels)
          /\ MeshApplied(c) => "Dirty" \notin get_chunk_at(chunks', c).flags]_vars

\* a chunk that was unloaded (Dirty) has been meshed again
C17_Witness ==
    \E c \in Coords :
        /\ pc = "process_discovery_tasks"
        /\ entities[c] = "despawned"
        /\ HasFlag(c, "Meshed") /\ ~HasFlag(c, "Dirty") /\ ~HasFlag(c, "Busy")
        /\ get_chunk_at(chunks, c).mesh = mesh_of("generated")
        /\ drawEvents[c] > 0

(***************************************************************************)
(* C18: a chunk whose Meshed flag is set has a mesh.                       *)
(***************************************************************************)
C18_MeshedHasMesh ==
    \A c \in Coords : HasFlag(c, "Meshed") => get_chunk_at(chunks, c).mesh # None

C18_Witness ==
    \E c \in Coords :
        /\ HasFlag(c, "Meshed")
        /\ get_chunk_at(chunks, c).mesh = mesh_of("generated")
        /\ pc = "process_discovery_tasks"

(***************************************************************************)
(* C19: one run of process_discovery_tasks dispatches at most              *)
(* QUEUE_PROCESS_LIMIT actions.                                            *)
(***************************************************************************)
RECURSIVE Total(_, _)
Total(events, coordinates) ==
    IF coordinates = <<>> THEN 0
    ELSE events[Head(coordinates)] + Total(events, Tail(coordinates))

\* number of events of all four kinds waiting for their readers
EventCount(generate, mesh, draw, create) ==
    LET all == Enumerate(Coords)
    IN  Total(generate, all) + Total(mesh, all) + Total(draw, all)
          + Total(create, all)

C19_AtMostLimitPerRun ==
    [][pc = "process_discovery_tasks" =>
          EventCount(generateEvents', meshEvents', drawEvents', createEvents')
            - EventCount(generateEvents, meshEvents, drawEvents, createEvents)
            <= QUEUE_PROCESS_LIMIT]_vars

\* a run that sent as many actions as the cap allows and kept the rest
C19_Witness ==
    /\ pc = "process_chunk_generation"
    /\ Len(process_queue) > 0
    /\ \E c \in Coords : createEvents[c] + generateEvents[c] >= QUEUE_PROCESS_LIMIT

(***************************************************************************)
(* C20: the cap drops no action: a run sends the oldest actions of the     *)
(* queue followed by this run's emissions, each once and in queue order,   *)
(* and keeps exactly the rest, in order, for later runs.                   *)
(***************************************************************************)
\* the actions a run's decisions emitted, in decision order
RECURSIVE Emissions(_)
Emissions(log) ==
    IF log = <<>> THEN <<>>
    ELSE (IF Head(log).result = None THEN <<>>
          ELSE <<[type |-> Head(log).result,
                  coordinates |-> Head(log).coordinates]>>)
         \o Emissions(Tail(log))

C20_CapDropsNothing ==
    [][pc = "process_discovery_tasks" =>
          LET all == process_queue \o Emissions(decisions')
              k == Len(all) - Len(process_queue')
              sent == SubSeq(all, 1, k)
          IN  /\ k >= 0
              /\ Len(all) > 0 => k > 0
              /\ process_queue' = SubSeq(all, k + 1, Len(all))
              /\ \A c \in Coords :
                    /\ generateEvents'[c] - generateEvents[c]
                          = CountOf(sent, "Generate", c)
                    /\ meshEvents'[c] - meshEvents[c] = CountOf(sent, "Mesh", c)
                    /\ drawEvents'[c] - drawEvents[c] = CountOf(sent, "Draw", c)
                    /\ createEvents'[c] - createEvents[c]
                          = CountOf(sent, "Create", c)]_vars

\* a run that decided nothing new and sent an action kept by an earlier run
C20_Witness ==
    /\ pc = "process_chunk_generation"
    /\ Emitted(decisions) = {}
    /\ \E c \in Coords : createEvents[c] + generateEvents[c] > 0

(***************************************************************************)
(* The discovery pass as a function of its inputs                          *)
(* (chunk/events/discovery/query.rs, processing.rs): a task enumerates     *)
(* the candidate coordinates around a centre chunk, and the poll that      *)
(* finds it finished decides an action for each candidate.                 *)
(***************************************************************************)
CHUNK_HEIGHT == 128
\* largest centre chunk index, on each axis, of the passes examined
MaxCenter == 1
\* largest discovery_radius and discovery_radius_height examined
MaxRadius == 1
MaxRadiusHeight == 1

\* a..=b as the sequence a range iterator yields
RECURSIVE Range(_, _)
Range(a, b) == IF a > b THEN <<>> ELSE <<a>> \o Range(a + 1, b)

\* the concatenation of the sequences a flat_map's closure returned
RECURSIVE flatten(_)
flatten(parts) ==
    IF parts = <<>> THEN <<>> ELSE Head(parts) \o flatten(Tail(parts))

\* The camera frustum, as the set of points inside all of its half-spaces.
Frustums == {"everything", "nothing", "x >= 0"}
\* HalfSpace: the points p with normal . p + d >= 0
HalfSpace(normal, d) == [normal |-> normal, d |-> d]
Whole == HalfSpace(<<0, 0, 0>>, 0)
\* frustum.half_spaces of the frustums examined, by name
half_spaces(frustum) ==
    CASE frustum = "everything" -> <<Whole, Whole, Whole, Whole, Whole, Whole>>
      [] frustum = "nothing" ->
            <<Whole, Whole, Whole, Whole, Whole, HalfSpace(<<0, 0, 0>>, -1)>>
      [] frustum = "x >= 0" ->
            <<HalfSpace(<<1, 0, 0>>, 0), Whole, Whole, Whole, Whole, Whole>>
      [] frustum = "-8 <= x <= 8" ->
            <<HalfSpace(<<1, 0, 0>>, 8), HalfSpace(<<-1, 0, 0>>, 8),
              Whole, Whole, Whole, Whole>>
      [] frustum = "x + z >= 1" ->
            <<Whole, Whole, HalfSpace(<<1, 0, 1>>, -1), Whole, Whole, Whole>>
      [] frustum = "x >= 0, y >= 0, z <= 0" ->
            <<HalfSpace(<<1, 0, 0>>, 0), Whole, HalfSpace(<<0, 1, 0>>, 0),
              Whole, HalfSpace(<<0, 0, -1>>, 0), Whole>>
      [] frustum = "x >= 0, x <= -1" ->
            <<HalfSpace(<<1, 0, 0>>, 0), HalfSpace(<<-1, 0, 0>>, -1),
              Whole, Whole, Whole, Whole>>

dot(a, b) == a[1] * b[1] + a[2] * b[2] + a[3] * b[3]

\* a test that also rejects the points on a plane
inside_strict(spaces, point) ==
    LET planes == half_spaces(spaces)
    IN  \A k \in DOMAIN planes : dot(planes[k].normal, point) + planes[k].d > 0

\* the loop over the half-spaces, query.rs:58-68
inside(spaces, point) ==
    LET planes == half_spaces(spaces)
    IN  \A k \in DOMAIN planes : ~(dot(planes[k].normal, point) + planes[k].d < 0)

is_in_frustum_batch(corners, spaces) ==
    [index \in DOMAIN corners |-> inside(spaces, corners[index])]

\* the closure of filter_map, query.rs:92-128: the point, or nothing when
\* neither corner is inside the frustum
candidate(center, x_offset, y_offset, z_offset, spaces) ==
    LET x == (center[1] + x_offset) * CHUNK_SIZE
        y == (center[2] + y_offset) * CHUNK_HEIGHT
        z == (center[3] + z_offset) * CHUNK_SIZE
        corners == << <<x - CHUNK_SIZE, y - CHUNK_HEIGHT, z - CHUNK_SIZE>>,
                      <<x + CHUNK_SIZE, y + CHUNK_HEIGHT, z + CHUNK_SIZE>> >>
        results == is_in_frustum_batch(corners, spaces)
    IN  IF \A index \in DOMAIN results : ~results[index]
        THEN <<>>
        ELSE << <<x, y, z>> >>

\* a range that leaves out its upper end
offsets_exclusive(radius) == Range(-radius, radius - 1)

\* -radius..=radius, query.rs:86, 89, 91
offsets(radius) == Range(-radius, radius)

spawn_discovery_task(center, radius, radius_height, spaces) ==
    LET xs == offsets(radius)
        ys == offsets(radius_height)
        zs == offsets(radius)
    IN  flatten([i \in DOMAIN xs |->
            flatten([j \in DOMAIN ys |->
                flatten([k \in DOMAIN zs |->
                    candidate(center, xs[i], ys[j], zs[k], spaces)])])])

\* The registry is keyed by the x and z of a coordinate (registry.rs:14,
\* 83-89).
RECURSIVE registry_keys(_)
registry_keys(data) ==
    IF data = <<>> THEN <<>>
    ELSE << <<Head(data)[1], Head(data)[3]>> >> \o registry_keys(Tail(data))

\* Registries a pass may meet: no chunk, a chunk at every anchor, or chunks
\* only at the anchors of the centre's x; all chunks carry the same flags.
Populations == {"none", "all", "x of center"}
PassAnchors ==
    LET reach == MaxCenter + MaxRadius
    IN  {<<x * CHUNK_SIZE, z * CHUNK_SIZE>> :
            x \in (-reach)..reach, z \in (-reach)..reach}

populated(population, center, flags) ==
    [id \in {domain_to_id(anchor) : anchor \in PassAnchors} |->
        IF \E anchor \in PassAnchors :
              /\ domain_to_id(anchor) = id
              /\ \/ population = "all"
                 \/ population = "x of center"
                      /\ anchor[1] = center[1] * CHUNK_SIZE
        THEN [Chunk_new EXCEPT !.flags = flags]
        ELSE NoChunk]

PassInit ==
    /\ pc = "spawn_discovery_task"
    /\ args \in [center : ((-MaxCenter)..MaxCenter) \X ((-MaxCenter)..MaxCenter)
                              \X ((-MaxCenter)..MaxCenter),
                 radius : 0..MaxRadius,
                 radius_height : 0..MaxRadiusHeight,
                 frustum : Frustums,
                 population : Populations,
                 flags : SUBSET ChunkFlags]
    /\ ret = None
    /\ EmptyWorld

\* the task runs to completion
SpawnDiscoveryTask ==
    /\ pc = "spawn_discovery_task"
    /\ ret' = [data |-> spawn_discovery_task(args.center, args.radius,
                                             args.radius_height, args.frustum)]
    /\ pc' = "poll_once"
    /\ UNCHANGED <<args, world>>

\* process_discovery_tasks finds the task finished, processing.rs:41-98
PollOnce ==
    /\ pc = "poll_once"
    /\ ret' = [data |-> ret.data,
               log |-> decide_all(
                          populated(args.population, args.center, args.flags),
                          [cq |-> {}, out |-> <<>>, log |-> <<>>],
                          registry_keys(ret.data)).log]
    /\ pc' = "polled"
    /\ UNCHANGED <<args, world>>

PassNext == SpawnDiscoveryTask \/ PollOnce

PassSpec == PassInit /\ [][PassNext]_vars

(***************************************************************************)
(* C21: with a frustum that accepts every point, a pass for centre chunk   *)
(* (cx,cy,cz) and radii (r, rh) yields exactly the coordinates             *)
(* ((cx+dx)*CHUNK_SIZE, (cy+dy)*CHUNK_HEIGHT, (cz+dz)*CHUNK_SIZE) for      *)
(* |dx| <= r, |dy| <= rh, |dz| <= r, each once, and the pass emits no      *)
(* action for a candidate whose chunk is Busy.                             *)
(***************************************************************************)
GridPoints ==
    {<<(args.center[1] + dx) * CHUNK_SIZE,
       (args.center[2] + dy) * CHUNK_HEIGHT,
       (args.center[3] + dz) * CHUNK_SIZE>> :
        dx \in (-args.radius)..args.radius,
        dy \in (-args.radius_height)..args.radius_height,
        dz \in (-args.radius)..args.radius}

C21_DiscoveryBounding ==
    /\ (pc \in {"poll_once", "polled"} /\ args.frustum = "everything") =>
          /\ {ret.data[i] : i \in DOMAIN ret.data} = GridPoints
          /\ \A i, j \in DOMAIN ret.data : ret.data[i] = ret.data[j] => i = j
    /\ pc = "polled" =>
          \A i \in DOMAIN ret.log :
              (ret.log[i].chunk # NoChunk /\ "Busy" \in ret.log[i].chunk.flags)
                 => ret.log[i].result = None

\* a full pass over 27 candidates whose chunks are all Busy
C21_Witness ==
    /\ pc = "polled"
    /\ args.frustum = "everything"
    /\ args.radius = 1 /\ args.radius_height = 1
    /\ args.population = "all" /\ "Busy" \in args.flags
    /\ Len(ret.data) = 27 /\ Len(ret.log) = 27

(***************************************************************************)
(* The linearization of the registry as functions of their inputs          *)
(* (chunk/registry.rs): get_chunk_center linearizes a coordinate and       *)
(* converts the id back; Into<Coordinates> for i32 converts an id, which   *)
(* domain_to_id then linearizes again.                                     *)
(***************************************************************************)
\* largest |x| and |z| of the coordinates examined
MaxCoordinate == 17
\* largest |id| of the ids examined
MaxId == 2049

\* the % of i32: the remainder has the sign of the dividend
TruncRem(a, b) == a - (b * TruncDiv(a, b))

\* an id_to_domain whose remainder is never negative
id_to_domain_euclidean(id) ==
    LET linear_x == TruncDiv(id, CHUNK_GRID_SIZE)
        linear_z == id % CHUNK_GRID_SIZE
    IN  <<linear_x * CHUNK_SIZE, linear_z * CHUNK_SIZE>>

id_to_domain(id) ==
    LET linear_x == TruncDiv(id, CHUNK_GRID_SIZE)
        linear_z == TruncRem(id, CHUNK_GRID_SIZE)
    IN  <<linear_x * CHUNK_SIZE, linear_z * CHUNK_SIZE>>

CoordinateRange ==
    ((-MaxCoordinate)..MaxCoordinate) \X ((-MaxCoordinate)..MaxCoordinate)

RegistryInit ==
    /\ \/ /\ pc = "domain_to_id"
          /\ args \in [coordinates : CoordinateRange]
       \/ /\ pc = "into_coordinates"
          /\ args \in [id : (-MaxId)..MaxId]
    /\ ret = None
    /\ EmptyWorld

\* get_chunk_center, registry.rs:126
DomainToId ==
    /\ pc = "domain_to_id"
    /\ ret' = [id |-> domain_to_id(args.coordinates)]
    /\ pc' = "id_to_domain"
    /\ UNCHANGED <<args, world>>

\* get_chunk_center, registry.rs:127
IdToDomain ==
    /\ pc = "id_to_domain"
    /\ ret' = [id |-> ret.id, domain |-> id_to_domain(ret.id)]
    /\ pc' = "returned"
    /\ UNCHANGED <<args, world>>

\* impl Into<Coordinates> for i32, registry.rs:136-141
IntoCoordinates ==
    /\ pc = "into_coordinates"
    /\ ret' = [coordinates |-> id_to_domain(args.id)]
    /\ pc' = "linearize"
    /\ UNCHANGED <<args, world>>

\* domain_to_id of the converted id, as in registry.rs:169
Linearize ==
    /\ pc = "linearize"
    /\ ret' = [coordinates |-> ret.coordinates,
               id |-> domain_to_id(ret.coordinates)]
    /\ pc' = "linearized"
    /\ UNCHANGED <<args, world>>

RegistryNext == DomainToId \/ IdToDomain \/ IntoCoordinates \/ Linearize

RegistrySpec == RegistryInit /\ [][RegistryNext]_vars

\* the minimum corner of the CHUNK_SIZE-aligned extent that holds c
chunk_origin(c) ==
    <<(c[1] \div CHUNK_SIZE) * CHUNK_SIZE, (c[2] \div CHUNK_SIZE) * CHUNK_SIZE>>

(***************************************************************************)
(* C22: domain_to_id is constant over one chunk's extent: two coordinates  *)
(* of the same CHUNK_SIZE-aligned chunk, positive or negative, map to the  *)
(* same id.                                                                *)
(***************************************************************************)
C22_SameChunkSameId ==
    pc = "id_to_domain" =>
        \A d \in CoordinateRange :
            chunk_origin(d) = chunk_origin(args.coordinates)
                => domain_to_id(d) = ret.id

(***************************************************************************)
(* C23: coordinates of different chunks never alias: when the extents of   *)
(* two coordinates differ on some axis their ids differ.                   *)
(***************************************************************************)
C23_DifferentChunkDifferentId ==
    pc = "id_to_domain" =>
        \A d \in CoordinateRange :
            chunk_origin(d) # chunk_origin(args.coordinates)
                => domain_to_id(d) # ret.id

(***************************************************************************)
(* C24: id_to_domain(domain_to_id(c)) is the origin (minimum corner) of    *)
(* the chunk that contains c.                                              *)
(***************************************************************************)
C24_RoundTripIsChunkOrigin ==
    pc = "returned" => ret.domain = chunk_origin(args.coordinates)

(***************************************************************************)
(* C25: domain_to_id(id_to_domain(id)) = id for every id: converting an id *)
(* into Coordinates and linearizing it again returns the same id.          *)
(***************************************************************************)
C25_IdRoundTrip ==
    pc = "linearized" => ret.id = args.id

\* an id below zero whose z part is not zero
C25_Witness ==
    /\ pc = "linearized"
    /\ args.id = -1025
    /\ ret.coordinates = <<-16, -16>>
    /\ ret.id = -1025

(***************************************************************************)
(* The mesher as a function of its inputs (chunk/mesh.rs).  A voxel is     *)
(* its is_solid field; its size is 1.0 and its colour plays no part in the *)
(* geometry.  Coordinates inside a chunk are u32 and wrap on overflow.     *)
(***************************************************************************)
\* largest width, height and depth of the chunks meshed
MaxDimension == 3
\* number of values of the unsigned integers of the model; the u32 of the
\* source wraps in the same places as long as the buffers are far shorter
WordValues == 65536

wrapping_add(a, b) == (a + b) % WordValues
\* a subtraction that stops at 0
saturating_sub(a, b) == IF a < b THEN 0 ELSE a - b

wrapping_sub(a, b) == (a - b) % WordValues
wrapping_mul(a, b) == (a * b) % WordValues

Solid == [is_solid |-> TRUE]
\* Voxel::default(), and the voxel generation starts from
Air == [is_solid |-> FALSE]
NoVoxel == [absent |-> TRUE]

\* Vec::get
get(buffer, index) ==
    IF index < Len(buffer) THEN buffer[index + 1] ELSE NoVoxel

\* Option<&Voxel>.filter(|voxel| voxel.is_solid()).is_some()
is_some_solid(voxel) == voxel # NoVoxel /\ voxel.is_solid

\* mesh.rs:72-79
voxel_faces == <<"Back", "Right", "Front", "Left", "Up", "Down">>

\* mesh.rs:174-181 and 200-207
neighbour(x, y, z, face) ==
    CASE face = "Front" -> <<x, y, wrapping_add(z, 1)>>
      [] face = "Back" -> <<x, y, wrapping_sub(z, 1)>>
      [] face = "Left" -> <<wrapping_sub(x, 1), y, z>>
      [] face = "Right" -> <<wrapping_add(x, 1), y, z>>
      [] face = "Up" -> <<x, wrapping_add(y, 1), z>>
      [] face = "Down" -> <<x, wrapping_sub(y, 1), z>>

\* nx + ny * width + nz * width * height
linear_index(n, width, height) ==
    wrapping_add(wrapping_add(n[1], wrapping_mul(n[2], width)),
                 wrapping_mul(wrapping_mul(n[3], width), height))

get_voxel_face(voxels, coordinates, face, dimensions) ==
    LET width == dimensions[1]
        height == dimensions[2]
        n == neighbour(coordinates[1], coordinates[2], coordinates[3], face)
    IN  IF n[1] < width /\ n[2] < height
        THEN get(voxels, linear_index(n, width, height))
        ELSE NoVoxel

\* mesh.rs:221-228
adjacent_slot(face) ==
    CASE face = "Back" -> 0
      [] face = "Front" -> 1
      [] face = "Right" -> 2
      [] face = "Left" -> 3
      [] face = "Up" -> 4
      [] face = "Down" -> 5

\* mesh.rs:232-239
adj_index(x, y, z, n, face, width, height) ==
    LET nx == n[1]
        ny == n[2]
        nz == n[3]
        row == wrapping_mul(wrapping_add(y, ny), width)
        plane(k) == wrapping_mul(wrapping_mul(k, width), height)
        sum3(a, b, c) == wrapping_add(wrapping_add(a, b), c)
    IN  CASE face = "Front" ->
               sum3(wrapping_sub(wrapping_sub(wrapping_sub(width, 1), x), nx),
                    row, plane(z))
          [] face = "Back" ->
               sum3(wrapping_add(x, nx), row,
                    plane(wrapping_sub(wrapping_sub(wrapping_sub(height, 1), z), nz)))
          [] face = "Left" ->
               sum3(wrapping_add(z, nz), row,
                    plane(wrapping_sub(wrapping_sub(wrapping_sub(width, 1), x), nx)))
          [] face = "Right" ->
               sum3(wrapping_add(z, nz), row, plane(x))
          [] face = "Up" ->
               sum3(wrapping_add(z, nz), wrapping_mul(y, width),
                    plane(wrapping_add(x, nx)))
          [] face = "Down" ->
               sum3(wrapping_add(z, nz),
                    wrapping_mul(
                        wrapping_sub(wrapping_sub(wrapping_sub(width, 1), y), ny),
                        width),
                    plane(wrapping_add(x, nx)))

\* a lookup that takes a missing adjacent buffer for solid
check_occluded_with_adjacents_missing_is_solid(voxels, adjacents, coordinates, face, dimensions) ==
    LET width == dimensions[1]
        height == dimensions[2]
        x == coordinates[1]
        y == coordinates[2]
        z == coordinates[3]
        n == neighbour(x, y, z, face)
    IN  IF n[1] < width /\ n[2] < height
        THEN ~is_some_solid(get(voxels, linear_index(n, width, height)))
        ELSE FALSE

\* TRUE when the face is to be kept
check_occluded_with_adjacents(voxels, adjacents, coordinates, face, dimensions) ==
    LET width == dimensions[1]
        height == dimensions[2]
        x == coordinates[1]
        y == coordinates[2]
        z == coordinates[3]
        n == neighbour(x, y, z, face)
    IN  IF n[1] < width /\ n[2] < height
        THEN ~is_some_solid(get(voxels, linear_index(n, width, height)))
        ELSE IF adjacent_slot(face) < Len(adjacents)
             THEN ~is_some_solid(get(adjacents[adjacent_slot(face) + 1],
                                     adj_index(x, y, z, n, face, width, height)))
             ELSE TRUE

\* the corners of a voxel, Voxel::mesh, mesh.rs:31-40
cube_vertices(x, y, z) ==
    << <<x, y, z>>, <<x + 1, y, z>>, <<x + 1, y + 1, z>>, <<x, y + 1, z>>,
       <<x, y, z + 1>>, <<x + 1, y, z + 1>>, <<x + 1, y + 1, z + 1>>,
       <<x, y + 1, z + 1>> >>

\* mesh.rs:115-122
face_indices ==
    << <<0, 2, 1, 0, 3, 2>>, <<1, 6, 5, 1, 2, 6>>, <<5, 7, 4, 5, 6, 7>>,
       <<4, 3, 0, 4, 7, 3>>, <<3, 6, 2, 3, 7, 6>>, <<4, 1, 5, 4, 0, 1>> >>

\* one iteration of the loops of mesh, mesh.rs:67-145: nothing, or the
\* voxel's position and its kept indices, not yet shifted
mesh_voxel(voxels, adjacent_voxels, settings, dimensions, x, y, z) ==
    LET voxel == get(voxels, linear_index(<<x, y, z>>, dimensions[1], dimensions[2]))
        fully_occluded ==
            \A k \in DOMAIN voxel_faces :
                is_some_solid(get_voxel_face(voxels, <<x, y, z>>, voxel_faces[k],
                                             dimensions))
        face_kept(k) ==
            \/ ~settings.occlusion_culling
            \/ check_occluded_with_adjacents(voxels, adjacent_voxels, <<x, y, z>>,
                                             voxel_faces[k], dimensions)
    IN  IF voxel = NoVoxel THEN <<>>
        ELSE IF ~voxel.is_solid \/ fully_occluded THEN <<>>
        ELSE <<[at |-> <<x, y, z>>,
                indices |-> flatten([k \in DOMAIN voxel_faces |->
                                        IF face_kept(k) THEN face_indices[k]
                                        ELSE <<>>])]>>

\* all_indices.extend(indices) with base_vertex_index = all_vertices.len()
RECURSIVE extend_indices(_, _)
extend_indices(parts, k) ==
    IF k > Len(parts) THEN <<>>
    ELSE [i \in DOMAIN parts[k].indices |->
             wrapping_add(parts[k].indices[i], 8 * (k - 1))]
         \o extend_indices(parts, k + 1)

mesh(voxels, adjacent_voxels, settings, dimensions) ==
    LET parts ==
          flatten([x \in 1..dimensions[1] |->
              flatten([y \in 1..dimensions[2] |->
                  flatten([z \in 1..dimensions[3] |->
                      mesh_voxel(voxels, adjacent_voxels, settings, dimensions,
                                 x - 1, y - 1, z - 1)])])])
    IN  [all_vertices |-> flatten([k \in DOMAIN parts |->
                              cube_vertices(parts[k].at[1], parts[k].at[2],
                                            parts[k].at[3])]),
         all_indices |-> extend_indices(parts, 1),
         \* the voxels that added vertices, in the order they did
         emitted |-> [k \in DOMAIN parts |-> parts[k].at]]

\* Voxel buffers examined: a full block, an empty one, a full block with
\* one hole, and a single solid voxel.
Buffers(length) ==
    {[i \in 1..length |-> Solid], [i \in 1..length |-> Air]}
      \cup {[i \in 1..length |-> IF i = hole THEN Air ELSE Solid] : hole \in 1..length}
      \cup {[i \in 1..length |-> IF i = only THEN Solid ELSE Air] : only \in 1..length}

\* What registry.get_adjacent_chunks found, per slot: no chunk, or the
\* neighbour's voxels.  An empty sequence is a call of mesh with no
\* neighbour buffers at all.
Adjacents(length) ==
    LET absent == [present |-> FALSE, voxels |-> <<>>]
        air == [present |-> TRUE, voxels |-> [i \in 1..length |-> Air]]
        solid == [present |-> TRUE, voxels |-> [i \in 1..length |-> Solid]]
    IN  {<<>>, [slot \in 1..6 |-> absent], [slot \in 1..6 |-> air],
         [slot \in 1..6 |-> solid]}
          \cup {[slot \in 1..6 |-> IF slot = missing THEN absent ELSE air] :
                   missing \in 1..6}

\* events/mesh.rs:38-59: a neighbour that is not in the registry counts as
\* a block of solid voxels
adjacent_voxels_of(adjacent, length) ==
    [slot \in DOMAIN adjacent |->
        IF adjacent[slot].present THEN adjacent[slot].voxels
        ELSE [i \in 1..length |-> Solid]]

MeshInit ==
    /\ pc = "mesh"
    /\ \E width \in 1..MaxDimension, height \in 1..MaxDimension,
          depth \in 1..MaxDimension :
          \E voxels \in Buffers(width * height * depth),
             adjacent \in Adjacents(width * height * depth),
             occlusion_culling \in BOOLEAN :
              args = [voxels |-> voxels, adjacent |-> adjacent,
                      settings |-> [occlusion_culling |-> occlusion_culling],
                      dimensions |-> <<width, height, depth>>]
    /\ ret = None
    /\ EmptyWorld

\* the task of mesh_chunk, events/mesh.rs:69-93
MeshTask ==
    /\ pc = "mesh"
    /\ ret' = mesh(args.voxels,
                   adjacent_voxels_of(args.adjacent, Len(args.voxels)),
                   args.settings, args.dimensions)
    /\ pc' = "meshed"
    /\ UNCHANGED <<args, world>>

MeshNext == MeshTask

MeshSpec == MeshInit /\ [][MeshNext]_vars

\* positions of the cells of a chunk
Cells(dimensions) ==
    (0..(dimensions[1] - 1)) \X (0..(dimensions[2] - 1)) \X (0..(dimensions[3] - 1))

\* the voxel of a buffer at a position, in the order of mesh.rs:67
voxel_at(buffer, position, dimensions) ==
    buffer[position[1] + position[2] * dimensions[1]
             + position[3] * dimensions[1] * dimensions[2] + 1]

\* the cell a face of a cell looks at
facing(position, face) ==
    CASE face = "Front" -> <<position[1], position[2], position[3] + 1>>
      [] face = "Back" -> <<position[1], position[2], position[3] - 1>>
      [] face = "Left" -> <<position[1] - 1, position[2], position[3]>>
      [] face = "Right" -> <<position[1] + 1, position[2], position[3]>>
      [] face = "Up" -> <<position[1], position[2] + 1, position[3]>>
      [] face = "Down" -> <<position[1], position[2] - 1, position[3]>>

\* the corners of the unit square between a cell and the cell it faces
square(position, face) ==
    {<<position[1] + a, position[2] + b, position[3] + c>> :
        a \in (IF face = "Left" THEN {0} ELSE IF face = "Right" THEN {1} ELSE {0, 1}),
        b \in (IF face = "Down" THEN {0} ELSE IF face = "Up" THEN {1} ELSE {0, 1}),
        c \in (IF face = "Back" THEN {0} ELSE IF face = "Front" THEN {1} ELSE {0, 1})}

\* the faces of a mesh: every six indices are two triangles over one square
Faces(result) ==
    {{result.all_vertices[result.all_indices[6 * (f - 1) + j] + 1] : j \in 1..6} :
        f \in 1..(Len(result.all_indices) \div 6)}

\* number of triangles whose vertices are the ones a voxel added
triangles_of(result, position) ==
    LET mine == {i \in DOMAIN result.all_indices :
                    \E k \in DOMAIN result.emitted :
                        /\ result.emitted[k] = position
                        /\ result.all_indices[i] \in (8 * (k - 1))..(8 * k - 1)}
    IN  Cardinality(mine) \div 3

(***************************************************************************)
(* C26: a solid voxel whose six face neighbours are all solid contributes  *)
(* zero triangles when occlusion culling is enabled and 12 triangles       *)
(* (36 indices) when it is disabled.                                       *)
(***************************************************************************)
Enclosed(position) ==
    /\ voxel_at(args.voxels, position, args.dimensions).is_solid
    /\ \A k \in DOMAIN voxel_faces :
          /\ facing(position, voxel_faces[k]) \in Cells(args.dimensions)
          /\ voxel_at(args.voxels, facing(position, voxel_faces[k]),
                      args.dimensions).is_solid

C26_EnclosedVoxelTriangles ==
    pc = "meshed" =>
        \A position \in Cells(args.dimensions) :
            Enclosed(position) =>
                triangles_of(ret, position)
                    = IF args.settings.occlusion_culling THEN 0 ELSE 12

(***************************************************************************)
(* C27: meshing a fully solid w x h x d chunk with no neighbour buffers    *)
(* and occlusion culling on yields exactly the faces of the outer shell,   *)
(* 2(wh+hd+wd) faces of 6 indices each, and no face between two solid      *)
(* voxels of the chunk.                                                    *)
(***************************************************************************)
\* the faces of cells that look out of the chunk
ShellFaces(dimensions) ==
    {square(side[1], voxel_faces[side[2]]) :
        side \in {pair \in Cells(dimensions) \X DOMAIN voxel_faces :
                     facing(pair[1], voxel_faces[pair[2]]) \notin Cells(dimensions)}}

FullBlockAlone ==
    /\ \A i \in DOMAIN args.voxels : args.voxels[i].is_solid
    /\ args.adjacent = <<>>
    /\ args.settings.occlusion_culling

C27_FullBlockShell ==
    (pc = "meshed" /\ FullBlockAlone) =>
        LET width == args.dimensions[1]
            height == args.dimensions[2]
            depth == args.dimensions[3]
        IN  /\ Faces(ret) = ShellFaces(args.dimensions)
            /\ Len(ret.all_indices)
                 = 6 * 2 * (width * height + height * depth + width * depth)

\* a 3 x 3 x 3 block: 54 faces, and the voxel in the middle adds nothing
C27_Witness ==
    /\ pc = "meshed"
    /\ FullBlockAlone
    /\ args.dimensions = <<3, 3, 3>>
    /\ Len(ret.all_indices) = 324
    /\ Len(ret.emitted) = 26

(***************************************************************************)
(* C28: for a voxel face on a chunk boundary, on any of the six sides, the *)
(* mesher consults the touching voxel of the adjacent chunk on that side:  *)
(* the face is dropped iff that voxel is solid, an adjacent chunk that is  *)
(* not in the registry counting as solid throughout.                       *)
(***************************************************************************)
\* the cell of the adjacent chunk that touches a boundary cell's face
touching(position, face, dimensions) ==
    CASE face = "Front" -> <<position[1], position[2], 0>>
      [] face = "Back" -> <<position[1], position[2], dimensions[3] - 1>>
      [] face = "Left" -> <<dimensions[1] - 1, position[2], position[3]>>
      [] face = "Right" -> <<0, position[2], position[3]>>
      [] face = "Up" -> <<position[1], 0, position[3]>>
      [] face = "Down" -> <<position[1], dimensions[2] - 1, position[3]>>

C28_BoundaryFaceConsultsAdjacent ==
    (pc = "meshed" /\ args.settings.occlusion_culling /\ Len(args.adjacent) = 6) =>
        \A position \in Cells(args.dimensions), k \in DOMAIN voxel_faces :
            LET face == voxel_faces[k]
                buffer == adjacent_voxels_of(args.adjacent, Len(args.voxels))
                              [adjacent_slot(face) + 1]
            IN  (/\ voxel_at(args.voxels, position, args.dimensions).is_solid
                 /\ facing(position, face) \notin Cells(args.dimensions))
                  => (square(position, face) \notin Faces(ret)
                        <=> voxel_at(buffer, touching(position, face, args.dimensions),
                                     args.dimensions).is_solid)

(***************************************************************************)
(* Chunk::new as create_chunk calls it (chunk/chunk.rs, chunk/event.rs),   *)
(* with the voxel buffer spelled out.  Chunk_new above is the same chunk   *)
(* with the buffer summarised as "default".                                *)
(***************************************************************************)
get_chunk_center(coordinates) ==
    LET chunk_id == domain_to_id(coordinates)
        chunk_domain == id_to_domain(chunk_id)
    IN  <<chunk_domain[1] + (CHUNK_SIZE \div 2), chunk_domain[2] + (CHUNK_SIZE \div 2)>>

\* a constructor that starts the chunk as Generated
new_generated(width, height, depth, world_position) ==
    [voxels |-> [i \in 1..(width * height * depth) |-> Air],
     dimensions |-> [width |-> width, height |-> height, depth |-> depth],
     world_position |-> world_position,
     mesh |-> None, lod |-> 0, entity |-> None, flags |-> {"Generated"}]

\* Chunk::new; Voxel::default() is not solid
new(width, height, depth, world_position) ==
    [voxels |-> [i \in 1..(width * height * depth) |-> Air],
     dimensions |-> [width |-> width, height |-> height, depth |-> depth],
     world_position |-> world_position,
     mesh |-> None, lod |-> 0, entity |-> None, flags |-> {}]

\* The dimensions are CHUNK_SIZE, CHUNK_HEIGHT, CHUNK_SIZE in create_chunk;
\* here they range over the small chunks.
CreateInit ==
    /\ pc = "new"
    /\ args \in [coordinates : CoordinateRange,
                 width : 1..MaxDimension,
                 height : 1..MaxDimension,
                 depth : 1..MaxDimension]
    /\ ret = None
    /\ EmptyWorld

\* the chunk create_chunk pushes for a ChunkCreateEvent, event.rs:18-28
CreateChunkOf ==
    /\ pc = "new"
    /\ ret' = new(args.width, args.height, args.depth,
                  get_chunk_center(args.coordinates))
    /\ pc' = "created"
    /\ UNCHANGED <<args, world>>

CreateNext == CreateChunkOf

CreateSpec == CreateInit /\ [][CreateNext]_vars

(***************************************************************************)
(* C29: a chunk created by a Create action starts with all flags clear,    *)
(* no mesh, no entity, lod 0, and a voxel buffer of exactly                *)
(* width*height*depth default (non-solid) voxels.                          *)
(***************************************************************************)
C29_CreatedChunkIsBlank ==
    pc = "created" =>
        /\ ret.flags = {}
        /\ ret.mesh = None
        /\ ret.entity = None
        /\ ret.lod = 0
        /\ Len(ret.voxels) = args.width * args.height * args.depth
        /\ \A i \in DOMAIN ret.voxels : ~ret.voxels[i].is_solid

C29_Witness ==
    /\ pc = "created"
    /\ args.width = 2 /\ args.height = 3 /\ args.depth = 2
    /\ Len(ret.voxels) = 12
    /\ ret.flags = {}

(***************************************************************************)
(* The generator as a function of its inputs (chunk/generation.rs).  The   *)
(* f64 values are exact here: noise samples and the threshold are counted  *)
(* in tenths, persistence is a fraction, and a noise value is kept as its  *)
(* numerator over 10 * height * den^octaves.  Colours are left out.        *)
(***************************************************************************)
\* largest GenerationSettings.octaves examined
MaxOctaves == 2

\* OpenSimplex::get is within -1..1; samples in tenths
Samples == {-10, 0, 5, 10}
\* The noise the simplex returns over the cells of the chunk: one value
\* everywhere, or 1.0 on the cells whose coordinate on one axis is 0 and
\* -1.0 elsewhere.
Simplexes ==
    [kind : {"constant"}, value : Samples, axis : {0}]
      \cup [kind : {"step"}, value : {10}, axis : 1..3]

\* simplex.get([x_offset, y_offset, z_offset]), generation.rs:57
simplex_get(simplex, x, y, z) ==
    IF simplex.kind = "constant" THEN simplex.value
    ELSE IF <<x, y, z>>[simplex.axis] = 0 THEN simplex.value ELSE -simplex.value

\* persistence.powi(i) for i in 0..octaves, each over den^octaves
amplitudes(settings) ==
    [n \in 1..settings.octaves |->
        (settings.persistence.num ^ (n - 1))
          * (settings.persistence.den ^ (settings.octaves - (n - 1)))]

RECURSIVE sum(_)
sum(terms) == IF terms = <<>> THEN 0 ELSE Head(terms) + sum(Tail(terms))

\* the octaves summed and scaled by the amplitude, generation.rs:59-65
scaled_noise(settings, value, height) ==
    LET amps == amplitudes(settings)
    IN  sum([n \in DOMAIN amps |-> amps[n] * value]) * settings.amplitude_scale * height

\* (y as f64 / height as f64) * 4.0, generation.rs:66
vertical_term(settings, y) == 40 * y * (settings.persistence.den ^ settings.octaves)

\* settings.threshold on the scale of the noise values
scaled_threshold(settings, height) ==
    settings.threshold * height * (settings.persistence.den ^ settings.octaves)

\* a decoding of the index that takes y for the fastest axis
cell_of_y_fastest(index, width, height) ==
    <<(index % (width * height)) \div height, index % height,
      index \div (width * height)>>

\* generation.rs:43-45
cell_of(index, width, height) ==
    <<index % width, (index % (width * height)) \div width,
      index \div (width * height)>>

generate_voxels(settings, simplex, dimensions) ==
    LET width == dimensions[1]
        height == dimensions[2]
        depth == dimensions[3]
    IN  [i \in 1..(width * height * depth) |->
            LET cell == cell_of(i - 1, width, height)
                value == simplex_get(simplex, cell[1], cell[2], cell[3])
                noise_value == scaled_noise(settings, value, height)
                                 + vertical_term(settings, cell[2])
            IN  IF noise_value > scaled_threshold(settings, height)
                THEN Solid ELSE Air]

GenerateInit ==
    /\ pc = "generate_voxels"
    /\ args \in [settings : [amplitude_scale : {1, 20},
                            threshold : {0, 4},
                            octaves : 0..MaxOctaves,
                            persistence : {[num |-> 1, den |-> 2]}],
                 simplex : Simplexes,
                 dimensions : (1..MaxDimension) \X (1..MaxDimension)
                                  \X (1..MaxDimension)]
    /\ ret = None
    /\ EmptyWorld

\* the task of generate_chunk, events/gen.rs:45-58
GenerateVoxels ==
    /\ pc = "generate_voxels"
    /\ ret' = generate_voxels(args.settings, args.simplex, args.dimensions)
    /\ pc' = "generated"
    /\ UNCHANGED <<args, world>>

GenerateNext == GenerateVoxels

GenerateSpec == GenerateInit /\ [][GenerateNext]_vars

\* the combined noise value of a cell exceeds the threshold
AboveThreshold(cell) ==
    scaled_noise(args.settings,
                 simplex_get(args.simplex, cell[1], cell[2], cell[3]),
                 args.dimensions[2])
        > scaled_threshold(args.settings, args.dimensions[2])

\* the combined noise value plus the vertical term exceeds the threshold
AboveThresholdWithHeight(cell) ==
    scaled_noise(args.settings,
                 simplex_get(args.simplex, cell[1], cell[2], cell[3]),
                 args.dimensions[2])
      + vertical_term(args.settings, cell[2])
        > scaled_threshold(args.settings, args.dimensions[2])

(***************************************************************************)
(* C30: generate_voxels returns a buffer of exactly width*height*depth     *)
(* voxels in x-fastest order in which a voxel is solid iff its combined    *)
(* noise value exceeds threshold; a noise field that is constant and above *)
(* threshold makes every voxel solid.                                      *)
(***************************************************************************)
\* the claim as stated: the combined value is the sum of the octaves scaled
\* by the amplitude
C30_SolidIffAboveThreshold ==
    pc = "generated" =>
        /\ Len(ret) = args.dimensions[1] * args.dimensions[2] * args.dimensions[3]
        /\ \A cell \in Cells(args.dimensions) :
              voxel_at(ret, cell, args.dimensions).is_solid <=> AboveThreshold(cell)

\* the claim with the vertical term 4 * y / height added to the combined
\* value; a voxel whose combined value alone exceeds the threshold is solid
C30_SolidIffAboveThresholdWithHeight ==
    pc = "generated" =>
        /\ Len(ret) = args.dimensions[1] * args.dimensions[2] * args.dimensions[3]
        /\ \A cell \in Cells(args.dimensions) :
              /\ voxel_at(ret, cell, args.dimensions).is_solid
                     <=> AboveThresholdWithHeight(cell)
              /\ AboveThreshold(cell) => voxel_at(ret, cell, args.dimensions).is_solid
        /\ (\A cell \in Cells(args.dimensions) : AboveThreshold(cell))
              => \A i \in DOMAIN ret : ret[i].is_solid

\* a column of constant noise below the threshold: the bottom voxel is
\* empty, the ones above it are solid
C30_Witness ==
    /\ pc = "generated"
    /\ args.dimensions = <<2, 3, 2>>
    /\ args.simplex.kind = "constant" /\ args.simplex.value = 0
    /\ args.settings.threshold = 4 /\ args.settings.octaves = 2
    /\ ~voxel_at(ret, <<1, 0, 1>>, args.dimensions).is_solid
    /\ voxel_at(ret, <<1, 1, 1>>, args.dimensions).is_solid
    /\ ~AboveThreshold(<<1, 1, 1>>)

(***************************************************************************)
(* The heat of a solid voxel (generation.rs:68-71).  An f64 division by    *)
(* zero does not trap: it yields an infinity, or NaN for 0.0 / 0.0, and    *)
(* max and min then bring the value into 0..1.                             *)
(***************************************************************************)
\* amplitude_scale - threshold, in tenths
heat_denominator(settings) == 10 * settings.amplitude_scale - settings.threshold

\* the class of the f64 quotient numerator / denominator
f64_div(numerator, denominator) ==
    IF denominator # 0 THEN
        (IF (numerator >= 0) = (denominator > 0) \/ numerator = 0
         THEN "finite, not negative" ELSE "finite, negative")
    ELSE IF numerator > 0 THEN "inf"
    ELSE IF numerator < 0 THEN "-inf"
    ELSE "NaN"

\* the heat of one voxel: nothing for a voxel that stays empty, else the
\* division the code carried out
heat_of(settings, value, y, height) ==
    LET noise_value == scaled_noise(settings, value, height)
                         + vertical_term(settings, y)
        numerator == noise_value - scaled_threshold(settings, height)
        denominator == heat_denominator(settings)
    IN  IF noise_value > scaled_threshold(settings, height)
        THEN [divided |-> TRUE, numerator |-> numerator,
              denominator |-> denominator,
              quotient |-> f64_div(numerator, denominator)]
        ELSE [divided |-> FALSE, numerator |-> 0, denominator |-> 0,
              quotient |-> "none"]

heats(settings, simplex, dimensions) ==
    LET width == dimensions[1]
        height == dimensions[2]
        depth == dimensions[3]
    IN  [i \in 1..(width * height * depth) |->
            LET cell == cell_of(i - 1, width, height)
            IN  heat_of(settings,
                        simplex_get(simplex, cell[1], cell[2], cell[3]),
                        cell[2], height)]

HeatInit ==
    /\ pc = "heat"
    /\ args \in [settings : [amplitude_scale : {1, 20},
                            threshold : {4, 10},
                            octaves : 0..MaxOctaves,
                            persistence : {[num |-> 1, den |-> 2]}],
                 simplex : Simplexes,
                 dimensions : (1..MaxDimension) \X (1..MaxDimension)
                                  \X (1..MaxDimension)]
    /\ ret = None
    /\ EmptyWorld

\* the divisions of one run of generate_voxels
NormalizeHeat ==
    /\ pc = "heat"
    /\ ret' = heats(args.settings, args.simplex, args.dimensions)
    /\ pc' = "heated"
    /\ UNCHANGED <<args, world>>

HeatNext == NormalizeHeat

HeatSpec == HeatInit /\ [][HeatNext]_vars

(***************************************************************************)
(* C31: when amplitude_scale == threshold the heat normalisation does not  *)
(* divide by zero: the denominator amplitude_scale - threshold is clamped  *)
(* away from zero before the division.                                     *)
(***************************************************************************)
C31_HeatNeverDividesByZero ==
    pc = "heated" =>
        \A i \in DOMAIN ret : ret[i].divided => ret[i].denominator # 0

(***************************************************************************)
(* The frustum test of one candidate (query.rs:92-128, 50-74).             *)
(***************************************************************************)
CullFrustums ==
    Frustums \cup {"-8 <= x <= 8", "x + z >= 1", "x >= 0, y >= 0, z <= 0",
                   "x >= 0, x <= -1"}

CullInit ==
    /\ pc = "filter_map"
    /\ args \in [center : ((-MaxCenter)..MaxCenter) \X ((-MaxCenter)..MaxCenter)
                              \X ((-MaxCenter)..MaxCenter),
                 x_offset : (-MaxRadius)..MaxRadius,
                 y_offset : (-MaxRadiusHeight)..MaxRadiusHeight,
                 z_offset : (-MaxRadius)..MaxRadius,
                 frustum : CullFrustums]
    /\ ret = None
    /\ EmptyWorld

\* the closure of filter_map runs for one offset
FilterMap ==
    /\ pc = "filter_map"
    /\ ret' = candidate(args.center, args.x_offset, args.y_offset, args.z_offset,
                        args.frustum)
    /\ pc' = "filtered"
    /\ UNCHANGED <<args, world>>

CullNext == FilterMap

CullSpec == CullInit /\ [][CullNext]_vars

\* the point of the candidate and its two representative corners
CandidatePoint ==
    <<(args.center[1] + args.x_offset) * CHUNK_SIZE,
      (args.center[2] + args.y_offset) * CHUNK_HEIGHT,
      (args.center[3] + args.z_offset) * CHUNK_SIZE>>

CandidateCorners ==
    {<<CandidatePoint[1] - CHUNK_SIZE, CandidatePoint[2] - CHUNK_HEIGHT,
       CandidatePoint[3] - CHUNK_SIZE>>,
     <<CandidatePoint[1] + CHUNK_SIZE, CandidatePoint[2] + CHUNK_HEIGHT,
       CandidatePoint[3] + CHUNK_SIZE>>}

\* normal . p + d >= 0 for all six half-spaces
InAllHalfSpaces(p) ==
    \A k \in 1..6 :
        dot(half_spaces(args.frustum)[k].normal, p)
            + half_spaces(args.frustum)[k].d >= 0

(***************************************************************************)
(* C32: a candidate chunk is kept by discovery iff at least one of its     *)
(* representative corner points satisfies normal . p + d >= 0 for all six  *)
(* frustum half-spaces; a chunk none of whose tested points lies inside    *)
(* all six half-spaces is discarded.                                       *)
(***************************************************************************)
C32_KeptIffACornerInside ==
    pc = "filtered" =>
        IF \E p \in CandidateCorners : InAllHalfSpaces(p)
        THEN ret = <<CandidatePoint>>
        ELSE ret = <<>>

\* a chunk kept by a corner that lies on a plane of the frustum, the other
\* corner being outside
C32_Witness ==
    /\ pc = "filtered"
    /\ args.frustum = "x >= 0"
    /\ CandidatePoint[1] = -CHUNK_SIZE
    /\ ret = <<CandidatePoint>>

(***************************************************************************)
(* SpiralIterator (util/spiral.rs).  ret holds the iterator and the items  *)
(* it has returned so far.                                                 *)
(***************************************************************************)
\* largest radius a spiral is built with
MaxSpiralRadius == 3

SpiralIterator_new(center_chunk_x, center_chunk_z, radius) ==
    [center_chunk_x |-> center_chunk_x, center_chunk_z |-> center_chunk_z,
     radius |-> radius, x |-> 0, z |-> 0, dx |-> 0, dz |-> -1,
     max_radius |-> radius * radius]

\* a distance check that lets every position pass
beyond_never(self) == FALSE

\* spiral.rs:57
beyond(self) == self.x * self.x + self.z * self.z > self.max_radius

\* spiral.rs:62-65
in_bounds(self) ==
    /\ -self.radius <= self.x /\ self.x <= self.radius
    /\ -self.radius <= self.z /\ self.z <= self.radius

\* spiral.rs:71-73
turns(self) ==
    \/ self.x = self.z
    \/ (self.x < 0 /\ self.x = -self.z)
    \/ (self.x > 0 /\ self.x = 1 - self.z)

\* Iterator::next: the iterator afterwards and the item, <<>> for None
SpiralIterator_next(self) ==
    IF beyond(self) THEN [self |-> self, item |-> <<>>]
    ELSE IF in_bounds(self) THEN
        LET result == <<self.center_chunk_x + self.x, self.center_chunk_z + self.z>>
            dx == IF turns(self) THEN -self.dz ELSE self.dx
            dz == IF turns(self) THEN self.dx ELSE self.dz
        IN  [self |-> [self EXCEPT !.dx = dx, !.dz = dz,
                                   !.x = self.x + dx, !.z = self.z + dz],
             item |-> <<result>>]
    ELSE [self |-> self, item |-> <<>>]

SpiralInit ==
    /\ pc = "SpiralIterator::new"
    /\ args \in [center_chunk_x : (-MaxCenter)..MaxCenter,
                 center_chunk_z : (-MaxCenter)..MaxCenter,
                 radius : 0..MaxSpiralRadius]
    /\ ret = None
    /\ EmptyWorld

SpiralNew ==
    /\ pc = "SpiralIterator::new"
    /\ ret' = [self |-> SpiralIterator_new(args.center_chunk_x, args.center_chunk_z,
                                           args.radius),
               items |-> <<>>]
    /\ pc' = "next"
    /\ UNCHANGED <<args, world>>

\* next returns Some
SpiralNextSome ==
    /\ pc = "next"
    /\ SpiralIterator_next(ret.self).item # <<>>
    /\ ret' = [self |-> SpiralIterator_next(ret.self).self,
               items |-> ret.items \o SpiralIterator_next(ret.self).item]
    /\ pc' = "next"
    /\ UNCHANGED <<args, world>>

\* next returns None: the for loop over the iterator ends
SpiralNextNone ==
    /\ pc = "next"
    /\ SpiralIterator_next(ret.self).item = <<>>
    /\ ret' = [self |-> SpiralIterator_next(ret.self).self, items |-> ret.items]
    /\ pc' = "exhausted"
    /\ UNCHANGED <<args, world>>

SpiralNext == SpiralNew \/ SpiralNextSome \/ SpiralNextNone

SpiralSpec == SpiralInit /\ [][SpiralNext]_vars

\* the grid coordinates within distance radius of the centre
Disc ==
    {<<args.center_chunk_x + x, args.center_chunk_z + z>> :
        <<x, z>> \in {c \in ((-args.radius)..args.radius) \X ((-args.radius)..args.radius) :
                         c[1] * c[1] + c[2] * c[2] <= args.radius * args.radius}}

(***************************************************************************)
(* C33: SpiralIterator::new(cx, cz, r) yields every grid coordinate within *)
(* distance r of the centre before it returns None.                        *)
(***************************************************************************)
C33_SpiralCoversDisc ==
    pc = "exhausted" => \A c \in Disc : \E i \in DOMAIN ret.items : ret.items[i] = c

(***************************************************************************)
(* C39: the sequence SpiralIterator yields is free of duplicates and all   *)
(* of its coordinates lie inside the disc of the given radius around the   *)
(* centre.                                                                 *)
(***************************************************************************)
C39_SpiralDistinctInsideDisc ==
    pc \in {"next", "exhausted"} =>
        /\ \A i, j \in DOMAIN ret.items : ret.items[i] = ret.items[j] => i = j
        /\ \A i \in DOMAIN ret.items : ret.items[i] \in Disc

\* a spiral of radius 3 that has ended after more than one turn
C39_Witness ==
    /\ pc = "exhausted"
    /\ args.radius = 3
    /\ Len(ret.items) >= 4

(***************************************************************************)
(* Completed tasks applied to a registry of several chunks                 *)
(* (process_chunk_generation, events/gen.rs:64-87, and                     *)
(* process_chunk_meshing, events/mesh.rs:100-132).  The closure of         *)
(* for_each runs once per finished task; the order in which the query      *)
(* yields the tasks is not fixed.  ret holds the registry, the tasks not   *)
(* yet applied, the events sent, and the last task with the registry it    *)
(* met.                                                                    *)
(***************************************************************************)
\* Anchors of chunks loaded together: they lie within the discovery radius
\* of one another, so their registry keys differ.
CompletionCoords == {<<-16, 0>>, <<0, 0>>, <<0, 16>>}
CompletionIds == {domain_to_id(c) : c \in CompletionCoords}

\* the chunks a registry holds when a task completes
CompletionChunks ==
    {NoChunk} \cup
    {[Chunk_new EXCEPT !.flags = flags] :
        flags \in {{"Busy"}, {"Generated", "Dirty", "Busy"},
                   {"Generated", "Meshed", "Drawn"}}}

\* a variant that clears Busy on every chunk of the registry
complete_meshing_releases_all(registry, coordinates, mesh_id) ==
    [id \in DOMAIN registry |->
        IF registry[id] = NoChunk THEN NoChunk
        ELSE IF id = domain_to_id(coordinates)
        THEN apply_mesh_result(registry[id], mesh_id)
        ELSE set_busy(registry[id], FALSE)]

\* events/mesh.rs:117-126
complete_meshing(registry, coordinates, mesh_id) ==
    IF get_chunk_at(registry, coordinates) = NoChunk THEN registry
    ELSE [registry EXCEPT ![domain_to_id(coordinates)] = apply_mesh_result(@, mesh_id)]

\* events/gen.rs:78-83
complete_generation(registry, coordinates) ==
    IF get_chunk_at(registry, coordinates) = NoChunk THEN registry
    ELSE [registry EXCEPT ![domain_to_id(coordinates)] = apply_generation_result(@)]

\* the event a completion sends, if the chunk is there
completion_events(registry, task, type) ==
    IF get_chunk_at(registry, task.coordinates) = NoChunk THEN {}
    ELSE {[type |-> type, coordinates |-> task.coordinates]}

CompletionInit ==
    /\ pc = "completions"
    /\ args \in [registry : [CompletionIds -> CompletionChunks],
                 tasks : SUBSET [kind : {"generation", "meshing"},
                                 coordinates : CompletionCoords],
                 mesh : {"mesh of default", "mesh of generated"}]
    /\ ret = [chunks |-> args.registry, pending |-> args.tasks, events |-> {},
              last |-> {}, before |-> args.registry]
    /\ EmptyWorld

CompleteGeneration ==
    /\ pc = "completions"
    /\ \E task \in ret.pending :
          /\ task.kind = "generation"
          /\ ret' = [chunks |-> complete_generation(ret.chunks, task.coordinates),
                     pending |-> ret.pending \ {task},
                     events |-> ret.events
                                  \cup completion_events(ret.chunks, task, "Mesh"),
                     last |-> {task},
                     before |-> ret.chunks]
    /\ UNCHANGED <<pc, args, world>>

CompleteMeshing ==
    /\ pc = "completions"
    /\ \E task \in ret.pending :
          /\ task.kind = "meshing"
          /\ ret' = [chunks |-> complete_meshing(ret.chunks, task.coordinates,
                                                 args.mesh),
                     pending |-> ret.pending \ {task},
                     events |-> ret.events
                                  \cup completion_events(ret.chunks, task, "Draw"),
                     last |-> {task},
                     before |-> ret.chunks]
    /\ UNCHANGED <<pc, args, world>>

CompletionNext == CompleteGeneration \/ CompleteMeshing

CompletionSpec == CompletionInit /\ [][CompletionNext]_vars

\* the registry after all of the tasks, applied kind by kind
AllApplied ==
    [id \in CompletionIds |->
        LET has(kind) == \E task \in args.tasks :
                            /\ task.kind = kind
                            /\ domain_to_id(task.coordinates) = id
            chunk == args.registry[id]
            generated == IF has("generation")
                         THEN apply_generation_result(chunk) ELSE chunk
        IN  IF chunk = NoChunk THEN NoChunk
            ELSE IF has("meshing") THEN apply_mesh_result(generated, args.mesh)
            ELSE generated]

(***************************************************************************)
(* C34: applying a completed task's result changes only the chunk at the   *)
(* task's own coordinates, fetched from the registry at completion time;   *)
(* if that chunk is absent the result is discarded; no other chunk's       *)
(* flags, voxels or mesh change, so completions for different coordinates  *)
(* can be applied in any order with the same final state.                  *)
(***************************************************************************)
C34_CompletionIsLocal ==
    pc = "completions" =>
        /\ \A task \in ret.last :
              /\ \A id \in CompletionIds :
                    id # domain_to_id(task.coordinates)
                        => ret.chunks[id] = ret.before[id]
              /\ get_chunk_at(ret.before, task.coordinates) = NoChunk
                    => ret.chunks = ret.before
              /\ get_chunk_at(ret.before, task.coordinates) # NoChunk
                    => get_chunk_at(ret.chunks, task.coordinates) =
                         IF task.kind = "generation"
                         THEN apply_generation_result(
                                  get_chunk_at(ret.before, task.coordinates))
                         ELSE apply_mesh_result(
                                  get_chunk_at(ret.before, task.coordinates),
                                  args.mesh)
        /\ ret.pending = {} => ret.chunks = AllApplied

\* all tasks applied, among them a meshing for an absent chunk and a
\* generation and a meshing for chunks that are there and Busy
C34_Witness ==
    /\ pc = "completions"
    /\ ret.pending = {}
    /\ args.registry[domain_to_id(<<0, 0>>)] = NoChunk
    /\ [kind |-> "meshing", coordinates |-> <<0, 0>>] \in args.tasks
    /\ [kind |-> "generation", coordinates |-> <<-16, 0>>] \in args.tasks
    /\ [kind |-> "meshing", coordinates |-> <<0, 16>>] \in args.tasks
    /\ args.registry[domain_to_id(<<-16, 0>>)] = [Chunk_new EXCEPT !.flags = {"Busy"}]
    /\ args.registry[domain_to_id(<<0, 16>>)]
          = [Chunk_new EXCEPT !.flags = {"Generated", "Dirty", "Busy"}]
    /\ ret.chunks # args.registry

(***************************************************************************)
(* C35: completion is observed only by non-blocking polling: an unfinished *)
(* task is left in place and polled again on later ticks, and each task's  *)
(* result is applied to the registry exactly once, on the tick its poll    *)
(* first returns a value.                                                  *)
(***************************************************************************)
\* what the step did with the generation tasks of c
GenerationPolledOnce(c) ==
    LET chunk == get_chunk_at(chunks, c)
        after == get_chunk_at(chunks', c)
    IN  /\ genTasks'[c] < genTasks[c] =>
              /\ pc = "process_chunk_generation"
              /\ chunk # NoChunk /\ after # NoChunk
              /\ after.voxels = "generated" /\ "Generated" \in after.flags
              /\ meshEvents'[c] - meshEvents[c] = genTasks[c] - genTasks'[c]
        /\ (pc = "process_chunk_generation" /\ genTasks'[c] = genTasks[c]) =>
              /\ after = chunk
              /\ meshEvents'[c] = meshEvents[c]

\* what the step did with the meshing tasks of c
MeshingPolledOnce(c) ==
    LET chunk == get_chunk_at(chunks, c)
        after == get_chunk_at(chunks', c)
    IN  /\ meshTasks'[c] < meshTasks[c] =>
              /\ pc = "process_chunk_meshing"
              /\ chunk # NoChunk /\ after # NoChunk
              /\ after.mesh # None /\ "Meshed" \in after.flags
              /\ after.flags \cap {"Dirty", "Busy"} = {}
              /\ drawEvents'[c] - drawEvents[c] = meshTasks[c] - meshTasks'[c]
        /\ (pc = "process_chunk_meshing" /\ meshTasks'[c] = meshTasks[c]) =>
              /\ after = chunk
              /\ drawEvents'[c] = drawEvents[c]

C35_ResultAppliedOnceWhenPolled ==
    [][/\ \A c \in Coords : GenerationPolledOnce(c) /\ MeshingPolledOnce(c)
       /\ Len(discTasks') < Len(discTasks) => pc = "process_discovery_tasks"]_vars

\* process_chunk_generation has just polled a task that had not finished:
\* the task is still there and the chunk is as generate_chunk left it
C35_Witness ==
    /\ pc = "handle_chunk_discovery"
    /\ \E c \in Coords :
          /\ genTasks[c] = 1
          /\ get_chunk_at(chunks, c) # NoChunk
          /\ get_chunk_at(chunks, c).voxels = "default"
          /\ "Generated" \notin get_chunk_at(chunks, c).flags
          /\ "Busy" \in get_chunk_at(chunks, c).flags
          /\ meshEvents[c] = 0

(***************************************************************************)
(* Chunk::set_voxel and Chunk::get_voxel (chunk/chunk.rs:138-176).  The    *)
(* buffer is an Arc<Vec<Voxel>>; shared says that another holder of the    *)
(* Arc exists, as while a task that was handed the buffer is running.      *)
(***************************************************************************)
\* chunk.rs:171-176, on u32
get_index(dimensions, coordinates) ==
    wrapping_add(wrapping_add(coordinates[1],
                              wrapping_mul(coordinates[2], dimensions[1])),
                 wrapping_mul(wrapping_mul(coordinates[3], dimensions[1]),
                              dimensions[2]))

\* chunk.rs:138-143
get_voxel(chunk, coordinates) ==
    get(chunk.voxels, get_index(chunk.dimensions, coordinates))

\* chunk.rs:149-165: Arc::get_mut gives None while the Arc is shared
set_voxel(chunk, coordinates, voxel) ==
    IF /\ coordinates[1] < chunk.dimensions[1]
       /\ coordinates[2] < chunk.dimensions[2]
       /\ coordinates[3] < chunk.dimensions[3]
       /\ ~chunk.shared
    THEN [chunk EXCEPT !.voxels[get_index(chunk.dimensions, coordinates) + 1] = voxel]
    ELSE chunk

VoxelInit ==
    /\ pc = "set_voxel"
    /\ args \in [dimensions : (1..MaxDimension) \X (1..MaxDimension)
                                  \X (1..MaxDimension),
                 coordinates : (0..MaxDimension) \X (0..MaxDimension)
                                   \X (0..MaxDimension),
                 fill : {Solid, Air},
                 voxel : {Solid, Air},
                 shared : BOOLEAN]
    /\ ret = None
    /\ EmptyWorld

\* the chunk before the write
VoxelChunk ==
    [voxels |-> [i \in 1..(args.dimensions[1] * args.dimensions[2]
                             * args.dimensions[3]) |-> args.fill],
     dimensions |-> args.dimensions,
     shared |-> args.shared]

SetVoxel ==
    /\ pc = "set_voxel"
    /\ ret' = [chunk |-> set_voxel(VoxelChunk, args.coordinates, args.voxel),
               read |-> NoVoxel]
    /\ pc' = "get_voxel"
    /\ UNCHANGED <<args, world>>

GetVoxel ==
    /\ pc = "get_voxel"
    /\ ret' = [ret EXCEPT !.read = get_voxel(ret.chunk, args.coordinates)]
    /\ pc' = "read"
    /\ UNCHANGED <<args, world>>

VoxelNext == SetVoxel \/ GetVoxel

VoxelSpec == VoxelInit /\ [][VoxelNext]_vars

InBounds ==
    /\ args.coordinates[1] < args.dimensions[1]
    /\ args.coordinates[2] < args.dimensions[2]
    /\ args.coordinates[3] < args.dimensions[3]

(***************************************************************************)
(* C36: for every in-bounds (x,y,z), set_voxel followed by get_voxel at    *)
(* the same coordinate returns the written voxel and no other cell         *)
(* changes: index = x + y*width + z*width*height is a bijection between    *)
(* the in-bounds coordinates and 0..width*height*depth, and the write      *)
(* always takes effect.                                                    *)
(***************************************************************************)
C36_WriteThenRead ==
    (pc = "read" /\ InBounds) =>
        /\ ret.read = args.voxel
        /\ \A cell \in Cells(args.dimensions) :
              cell # args.coordinates
                  => voxel_at(ret.chunk.voxels, cell, args.dimensions) = args.fill
        /\ \A a, b \in Cells(args.dimensions) :
              get_index(args.dimensions, a) = get_index(args.dimensions, b) => a = b
        /\ \A cell \in Cells(args.dimensions) :
              get_index(args.dimensions, cell) < Len(ret.chunk.voxels)

(***************************************************************************)
(* Discovery and unloading for one camera position (chunk/discovery.rs).   *)
(* translation is in world units on both axes; the f32 quotients by the    *)
(* chunk size are compared after multiplying both sides by CHUNK_SIZE.     *)
(***************************************************************************)
\* largest |translation.x|, |translation.z| of the camera, in world units
MaxCamera == 20

\* the anchors load_chunks enumerates, discovery.rs:34-50
enumerated(translation_xz, radius) ==
    {<<(center_chunk(translation_xz[1]) + x_offset) * CHUNK_SIZE,
       (center_chunk(translation_xz[2]) + z_offset) * CHUNK_SIZE>> :
        x_offset \in (-radius)..radius, z_offset \in (-radius)..radius}

\* a test without the slack of one chunk
is_distant_without_slack(position, translation_xz, radius) ==
    LET dist_x == TruncDiv(position[1], CHUNK_SIZE)
        dist_z == TruncDiv(position[2], CHUNK_SIZE)
    IN  \/ Abs(dist_x * CHUNK_SIZE - translation_xz[1]) > radius * CHUNK_SIZE
        \/ Abs(dist_z * CHUNK_SIZE - translation_xz[2]) > radius * CHUNK_SIZE

\* discovery.rs:116-128
is_distant(position, translation_xz, radius) ==
    LET dist_x == TruncDiv(position[1], CHUNK_SIZE)
        dist_z == TruncDiv(position[2], CHUNK_SIZE)
    IN  \/ Abs(dist_x * CHUNK_SIZE - translation_xz[1]) - CHUNK_SIZE
              > radius * CHUNK_SIZE
        \/ Abs(dist_z * CHUNK_SIZE - translation_xz[2]) - CHUNK_SIZE
              > radius * CHUNK_SIZE

\* positions of the ChunkEntity entities alive around the camera
LoadedPositions ==
    LET reach == (MaxCamera \div CHUNK_SIZE) + MaxRadius + 2
    IN  {<<x * CHUNK_SIZE, z * CHUNK_SIZE>> :
            x \in (-reach)..reach, z \in (-reach)..reach}

EdgeInit ==
    /\ pc = "load_chunks"
    /\ args \in [translation : ((-MaxCamera)..MaxCamera) \X ((-MaxCamera)..MaxCamera),
                 discovery_radius : 0..MaxRadius]
    /\ ret = None
    /\ EmptyWorld

LoadChunks ==
    /\ pc = "load_chunks"
    /\ ret' = [enumerated |-> enumerated(args.translation, args.discovery_radius),
               unloaded |-> {}]
    /\ pc' = "unload_distant_chunks"
    /\ UNCHANGED <<args, world>>

UnloadDistant ==
    /\ pc = "unload_distant_chunks"
    /\ ret' = [ret EXCEPT !.unloaded =
                  {position \in LoadedPositions :
                      is_distant(position, args.translation, args.discovery_radius)}]
    /\ pc' = "unloaded"
    /\ UNCHANGED <<args, world>>

EdgeNext == LoadChunks \/ UnloadDistant

EdgeSpec == EdgeInit /\ [][EdgeNext]_vars

(***************************************************************************)
(* C37: a chunk whose coordinate is among those enumerated by discovery    *)
(* for the current camera position is never unloaded by                    *)
(* unload_distant_chunks for that same camera position.                    *)
(***************************************************************************)
C37_EnumeratedNotUnloaded ==
    pc = "unloaded" => ret.enumerated \cap ret.unloaded = {}

\* a camera between two anchors: the chunk at the edge of the radius is
\* enumerated and kept, and a chunk further out is unloaded
C37_Witness ==
    /\ pc = "unloaded"
    /\ args.translation = <<-20, 8>>
    /\ args.discovery_radius = 1
    /\ <<-32, 16>> \in ret.enumerated
    /\ <<-32, 16>> \notin ret.unloaded
    /\ <<-48, 16>> \notin ret.enumerated
    /\ <<-64, 16>> \in ret.unloaded

(***************************************************************************)
(* The lock-based variant (chunk/loading/discovery.rs): load_chunks spawns *)
(* a mesh task per coordinate in every frame, each task works on the       *)
(* chunk behind its Mutex, and handle_mesh_tasks polls the tasks.  One     *)
(* chunk is followed.  ret holds the chunk's flags, the holders of its     *)
(* mutex, the tasks, the draw queue, and the number of the Dirty episode   *)
(* (the times Dirty went from clear to set).                               *)
(***************************************************************************)
\* mesh tasks load_chunks spawns for the chunk
MaxMeshTasks == 3
\* times the chunk is marked Dirty again
MaxEpisodes == 2

MeshTaskIds == 1..MaxMeshTasks

\* a mutex that excludes nobody
lockable_always(holders) == TRUE

\* Mutex::lock returns once no other thread holds the mutex
lockable(holders) == holders = {}

LockInit ==
    /\ pc = "loading"
    /\ args = None
    /\ ret = [dirty |-> FALSE, generated |-> FALSE, episode |-> 0, holders |-> {},
              task |-> [t \in MeshTaskIds |-> "not spawned"],
              result |-> [t \in MeshTaskIds |-> 0],
              queue |-> <<>>]
    /\ EmptyWorld

\* load_chunks spawns a task for the coordinate, discovery.rs:58-77
SpawnComputeMesh ==
    /\ pc = "loading"
    /\ \E t \in MeshTaskIds :
          /\ ret.task[t] = "not spawned"
          /\ \A u \in MeshTaskIds : u < t => ret.task[u] # "not spawned"
          /\ ret' = [ret EXCEPT !.task[t] = "spawned"]
    /\ UNCHANGED <<pc, args, world>>

\* chunk.lock(), discovery.rs:59
TaskLock ==
    /\ pc = "loading"
    /\ \E t \in MeshTaskIds :
          /\ ret.task[t] = "spawned"
          /\ lockable(ret.holders)
          /\ ret' = [ret EXCEPT !.task[t] = "locked", !.holders = @ \cup {t}]
    /\ UNCHANGED <<pc, args, world>>

\* the test of the flags, discovery.rs:63-65; the guard is dropped on return
TaskCheck ==
    /\ pc = "loading"
    /\ \E t \in MeshTaskIds :
          /\ ret.task[t] = "locked"
          /\ IF ~ret.dirty \/ ~ret.generated
             THEN ret' = [ret EXCEPT !.task[t] = "finished", !.holders = @ \ {t}]
             ELSE ret' = [ret EXCEPT !.task[t] = "meshing"]
    /\ UNCHANGED <<pc, args, world>>

\* chunk.mesh, set_dirty(false) and the return, discovery.rs:66-71
TaskMeshed ==
    /\ pc = "loading"
    /\ \E t \in MeshTaskIds :
          /\ ret.task[t] = "meshing"
          /\ ret' = [ret EXCEPT !.task[t] = "finished", !.result[t] = ret.episode,
                                !.dirty = FALSE, !.holders = @ \ {t}]
    /\ UNCHANGED <<pc, args, world>>

\* a generation task fills the chunk under its mutex,
\* loading/generation.rs:93-152
GenerationTask ==
    /\ pc = "loading"
    /\ lockable(ret.holders)
    /\ ~ret.generated
    /\ ret' = [ret EXCEPT !.generated = TRUE]
    /\ UNCHANGED <<pc, args, world>>

\* the chunk is marked Dirty again (unloading, chunk/discovery.rs:133-138),
\* which in this variant goes through the chunk's mutex
MarkDirty ==
    /\ pc = "loading"
    /\ lockable(ret.holders)
    /\ ~ret.dirty
    /\ ret.episode < MaxEpisodes
    /\ ret' = [ret EXCEPT !.dirty = TRUE, !.episode = @ + 1]
    /\ UNCHANGED <<pc, args, world>>

\* handle_mesh_tasks finds a task finished, discovery.rs:87-102
HandleMeshTasks ==
    /\ pc = "loading"
    /\ \E t \in MeshTaskIds :
          /\ ret.task[t] = "finished"
          /\ ret' = [ret EXCEPT !.task[t] = "removed",
                                !.queue = IF ret.result[t] = 0 THEN @
                                          ELSE Append(@, ret.result[t])]
    /\ UNCHANGED <<pc, args, world>>

LockNext ==
    \/ SpawnComputeMesh
    \/ TaskLock
    \/ TaskCheck
    \/ TaskMeshed
    \/ GenerationTask
    \/ MarkDirty
    \/ HandleMeshTasks

LockSpec == LockInit /\ [][LockNext]_vars

(***************************************************************************)
(* C38: in the lock-based variant, when several mesh tasks for the same    *)
(* chunk run concurrently, at most one of them produces a mesh and a       *)
(* draw-queue entry per Dirty episode, because the Dirty-and-Generated     *)
(* check and the clearing of Dirty happen together under the chunk's       *)
(* mutex.                                                                  *)
(***************************************************************************)
C38_OneMeshPerDirtyEpisode ==
    pc = "loading" =>
        /\ \A t, u \in MeshTaskIds :
              (ret.result[t] # 0 /\ ret.result[t] = ret.result[u]) => t = u
        /\ \A i, j \in DOMAIN ret.queue : ret.queue[i] = ret.queue[j] => i = j
        /\ \A t, u \in MeshTaskIds :
              (ret.task[t] = "meshing" /\ ret.task[u] = "meshing") => t = u

\* three tasks ran for the chunk, two of them produced a mesh, one in each
\* episode, and both meshes are in the draw queue
C38_Witness ==
    /\ pc = "loading"
    /\ \A t \in MeshTaskIds : ret.task[t] = "removed"
    /\ Len(ret.queue) = 2
    /\ ret.episode = 2

(***************************************************************************)
(* C40: in the mesher's neighbour computation a voxel on the low boundary  *)
(* of the chunk (x = 0, y = 0 or z = 0) never makes the unsigned           *)
(* subtraction select an in-buffer voxel: with u32 arithmetic modulo 2^32, *)
(* get_voxel_face and check_occluded_with_adjacents treat the -1 neighbour *)
(* as outside the chunk's own buffer, never as some other in-chunk cell.   *)
(***************************************************************************)
\* the faces of a cell whose neighbour has a coordinate of -1
LowFaces(cell) ==
    {face \in {"Left", "Down", "Back"} :
        \/ face = "Left" /\ cell[1] = 0
        \/ face = "Down" /\ cell[2] = 0
        \/ face = "Back" /\ cell[3] = 0}

\* the buffer with every voxel turned into its opposite
Inverted(voxels) == [i \in DOMAIN voxels |-> IF voxels[i].is_solid THEN Air ELSE Solid]

C40_LowNeighbourOutsideBuffer ==
    pc = "meshed" =>
        \A cell \in Cells(args.dimensions) : \A face \in LowFaces(cell) :
            LET n == neighbour(cell[1], cell[2], cell[3], face)
                adjacent_voxels == adjacent_voxels_of(args.adjacent, Len(args.voxels))
            IN  /\ ~(/\ n[1] < args.dimensions[1]
                     /\ n[2] < args.dimensions[2]
                     /\ linear_index(n, args.dimensions[1], args.dimensions[2])
                            < Len(args.voxels))
                /\ get_voxel_face(args.voxels, cell, face, args.dimensions) = NoVoxel
                /\ check_occluded_with_adjacents(args.voxels, adjacent_voxels, cell,
                                                 face, args.dimensions)
                     = check_occluded_with_adjacents(Inverted(args.voxels),
                                                     adjacent_voxels, cell, face,
                                                     args.dimensions)

\* a full 3 x 3 x 3 block among empty neighbours has been meshed: the corner
\* voxel at the origin has three neighbours at -1 and was emitted
C40_Witness ==
    /\ pc = "meshed"
    /\ args.dimensions = <<3, 3, 3>>
    /\ args.settings.occlusion_culling
    /\ \A i \in DOMAIN args.voxels : args.voxels[i].is_solid
    /\ Len(args.adjacent) = 6
    /\ \A slot \in DOMAIN args.adjacent : args.adjacent[slot].present
    /\ LowFaces(<<0, 0, 0>>) = {"Left", "Down", "Back"}
    /\ \E k \in DOMAIN ret.emitted : ret.emitted[k] = <<0, 0, 0>>

====
